---- MODULE Spec2Model ----
(***************************************************************************)
(* A model of treebender: the Earley chart parser (earley.rs), the grammar *)
(* with its nullable set (rules.rs), the parse forest and its tree         *)
(* enumerator (forest.rs), the feature-structure graph with destructive    *)
(* unification (featurestructure/node.rs, featurestructure/serialized.rs)  *)
(* and the driver that unifies every candidate tree (lib.rs).              *)
(***************************************************************************)
EXTENDS Integers, Sequences, FiniteSets, TLC

VARIABLES
  pc,        \* position of the driver: new, ready, chart, forest, trees, unify, done, failed
  authored,  \* the authored rules handed to the grammar reader
  grammar,   \* the constructed Grammar: start, rules, nonterminals, nullables
  heap,      \* the feature nodes ever allocated; a NodeRef is an index into it
  input,     \* the token sequence of the running parse call
  chart,     \* Chart: level k -> sequence of State, in insertion order
  k,         \* parse_chart's outer loop variable
  idx,       \* parse_chart's inner loop variable (items of level k visited so far)
  forest,    \* Forest: origin -> sequence of ForestState
  trees,     \* the candidate trees returned by Forest::trees
  results,   \* the value returned by Grammar::parse
  fault,     \* "" or the panic / abort that ended the call
  fs         \* the feature-structure workbench: roots and outcomes of the last operation

vars == <<pc, authored, grammar, heap, input, chart, k, idx, forest, trees, results, fault, fs>>

----------------------------------------------------------------------------
(* Bounds of the model *)

\* longest token sequence handed to parse
MaxLen == 3

----------------------------------------------------------------------------
(* Sequence helpers *)

Range(s) == {s[i] : i \in 1..Len(s)}

\* the element of a one-element set.  Only({e(v) : v \in {d}}) reads "e, where
\* v is d", d being computed once
Only(S) == CHOOSE v \in S : TRUE

RECURSIVE SeqsUpTo(_, _)
SeqsUpTo(S, n) ==
  IF n = 0 THEN {<<>>}
  ELSE UNION {shorter \cup {Append(s, x) : s \in {t \in shorter : Len(t) = n - 1}, x \in S}
              : shorter \in {SeqsUpTo(S, n - 1)}}

RECURSIVE Perms(_)
Perms(S) ==
  IF S = {} THEN {<<>>}
  ELSE UNION {{<<x>> \o p : p \in Perms(S \ {x})} : x \in S}

RECURSIVE Flatten(_)
Flatten(ss) == IF ss = <<>> THEN <<>> ELSE Head(ss) \o Flatten(Tail(ss))

----------------------------------------------------------------------------
(* rules.rs: productions and rules *)

Terminal(s) == [term |-> TRUE, name |-> s]
Nonterminal(s) == [term |-> FALSE, name |-> s]

is_terminal(p) == p.term
is_nonterminal(p) == ~p.term
symbol_str(p) == p.name

\* A feature value as the grammar reader allocates it: **top** or a string
TOP_STR == "**top**"
NoTag == ""

Feature(path, tag, value) == [path |-> path, tag |-> tag, value |-> value]

\* One authored right-hand-side element: the production and its bracketed features
Elem(prod, feats) == [prod |-> prod, feats |-> feats]
T(w) == Elem(Terminal(w), <<>>)
N(s) == Elem(Nonterminal(s), <<>>)
NF(s, feats) == Elem(Nonterminal(s), feats)

\* One authored rule: Lhs[feats] -> elems
Authored(lhs, feats, elems) == [symbol |-> lhs, feats |-> feats, elems |-> elems]

----------------------------------------------------------------------------
(* featurestructure/node.rs: the feature nodes *)

NoArcs == [l \in {} |-> 0]

Top == [kind |-> "Top", str |-> "", arcs |-> NoArcs, fwd |-> 0]
Str(s) == [kind |-> "Str", str |-> s, arcs |-> NoArcs, fwd |-> 0]
Edged(arcs) == [kind |-> "Edged", str |-> "", arcs |-> arcs, fwd |-> 0]
Forwarded(n) == [kind |-> "Forwarded", str |-> "", arcs |-> NoArcs, fwd |-> n]

new_edged == Edged(NoArcs)

is_top(node) == node.kind = "Top"
is_str(node) == node.kind = "Str"
is_edged(node) == node.kind = "Edged"

\* NodeRef::new: the heap with one more node; the new NodeRef is Len of the result
NodeRef_new(h, node) == Append(h, node)

\* HashMap::insert on an arc map
ArcInsert(arcs, label, target) ==
  [l \in DOMAIN arcs \cup {label} |-> IF l = label THEN target ELSE arcs[l]]

\* HashMap::iter on an arc map: the labels in the order `ord` ranks them.  The
\* order of a HashMap is not specified; `ord` is the order this run draws.
ArcIter(arcs, ord) == SelectSeq(ord, LAMBDA l : l \in DOMAIN arcs)

\* Outcomes of an operation on the graph
OK == "ok"
ERR == "err"
\* a read of a node this thread holds the write lock of: RwLock::read never returns
DEADLOCK == "deadlock"
\* unbounded recursion: the stack overflows and the process aborts
OVERFLOW == "overflow"

\* NodeRef::dereference.  `locked` are the nodes whose write guard is alive; 0
\* says a locked node was read, -1 that the Forwarded links loop.
RECURSIVE dereference_from(_, _, _, _)
dereference_from(h, n, locked, seen) ==
  IF n \in locked THEN 0
  ELSE IF h[n].kind = "Forwarded"
       THEN IF n \in seen THEN -1
            ELSE dereference_from(h, h[n].fwd, locked, seen \cup {n})
       ELSE n

dereference(h, n, locked) == dereference_from(h, n, locked, {})

\* dereference outside any unification (no write guard alive)
Deref(h, n) == dereference(h, n, {})

DerefFailure(n) == IF n = 0 THEN DEADLOCK ELSE OVERFLOW

\* NodeRef::unify.  Returns the heap after the call and its outcome.
RECURSIVE unify(_, _, _, _, _)
RECURSIVE unify_arcs(_, _, _, _, _, _)

\* a loop that unifies the shared arcs and leaves the arcs only n1 has behind
unify_arcs_shared_only(h, n1arcs, labels, n2, locked, ord) ==
  IF labels = <<>> THEN [h |-> h, r |-> OK]
  ELSE LET label == Head(labels)
           value == n1arcs[label]
           n2arcs == h[n2].arcs
       IN IF label \in DOMAIN n2arcs
          THEN Only({ IF u.r # OK THEN u
                      ELSE unify_arcs(u.h, n1arcs, Tail(labels), n2, locked, ord)
                      : u \in {unify(h, value, n2arcs[label], locked, ord)} })
          ELSE unify_arcs(h, n1arcs, Tail(labels), n2, locked, ord)

\* the loop over n1arcs of the Edged case, n2's write guard being alive
unify_arcs(h, n1arcs, labels, n2, locked, ord) ==
  IF labels = <<>> THEN [h |-> h, r |-> OK]
  ELSE LET label == Head(labels)
           value == n1arcs[label]
           n2arcs == h[n2].arcs
       IN IF label \in DOMAIN n2arcs
          THEN \* shared arc
               Only({ IF u.r # OK THEN u
                      ELSE unify_arcs(u.h, n1arcs, Tail(labels), n2, locked, ord)
                      : u \in {unify(h, value, n2arcs[label], locked, ord)} })
          ELSE \* complement arc
               Only({ unify_arcs(h1, n1arcs, Tail(labels), n2, locked, ord)
                      : h1 \in {[h EXCEPT ![n2] = Edged(ArcInsert(n2arcs, label, value))]} })

\* a unification that finds two equal atoms and returns Ok, leaving them two nodes
unify_equal_atoms_left_apart(h, a, b, locked, ord) ==
  Only({
     IF n1 < 1 THEN [h |-> h, r |-> DerefFailure(n1)]
     ELSE IF n2 < 1 THEN [h |-> h, r |-> DerefFailure(n2)]
     ELSE IF n1 = n2 THEN [h |-> h, r |-> OK]
     ELSE IF is_top(h[n1]) THEN [h |-> [h EXCEPT ![n1] = Forwarded(n2)], r |-> OK]
     ELSE IF is_top(h[n2]) THEN [h |-> [h EXCEPT ![n2] = Forwarded(n1)], r |-> OK]
     ELSE IF is_str(h[n1]) /\ is_str(h[n2])
          THEN IF h[n1].str = h[n2].str
               THEN [h |-> h, r |-> OK]
               ELSE [h |-> h, r |-> ERR]
     ELSE IF is_edged(h[n1]) /\ is_edged(h[n2])
          THEN Only({ unify_arcs(h1, n1arcs, ArcIter(n1arcs, ord), n2,
                                 locked \cup {n2}, ord)
                      : h1 \in {[h EXCEPT ![n1] = Forwarded(n2)]},
                        n1arcs \in {h[n1].arcs} })
     ELSE [h |-> h, r |-> ERR]
     : n1 \in {dereference(h, a, locked)}, n2 \in {dereference(h, b, locked)} })

\* a unification that forwards the first operand to the second when the second
\* is Top
unify_forwarding_to_top(h, a, b, locked, ord) ==
  Only({
     IF n1 < 1 THEN [h |-> h, r |-> DerefFailure(n1)]
     ELSE IF n2 < 1 THEN [h |-> h, r |-> DerefFailure(n2)]
     ELSE IF n1 = n2 THEN [h |-> h, r |-> OK]
     ELSE IF is_top(h[n1]) THEN [h |-> [h EXCEPT ![n1] = Forwarded(n2)], r |-> OK]
     ELSE IF is_top(h[n2]) THEN [h |-> [h EXCEPT ![n1] = Forwarded(n2)], r |-> OK]
     ELSE IF is_str(h[n1]) /\ is_str(h[n2])
          THEN IF h[n1].str = h[n2].str
               THEN [h |-> [h EXCEPT ![n1] = Forwarded(n2)], r |-> OK]
               ELSE [h |-> h, r |-> ERR]
     ELSE IF is_edged(h[n1]) /\ is_edged(h[n2])
          THEN Only({ unify_arcs(h1, n1arcs, ArcIter(n1arcs, ord), n2,
                                 locked \cup {n2}, ord)
                      : h1 \in {[h EXCEPT ![n1] = Forwarded(n2)]},
                        n1arcs \in {h[n1].arcs} })
     ELSE [h |-> h, r |-> ERR]
     : n1 \in {dereference(h, a, locked)}, n2 \in {dereference(h, b, locked)} })

\* a unification without the check that both operands are one node
unify_without_identity_check(h, a, b, locked, ord) ==
  Only({
     IF n1 < 1 THEN [h |-> h, r |-> DerefFailure(n1)]
     ELSE IF n2 < 1 THEN [h |-> h, r |-> DerefFailure(n2)]
     ELSE IF is_top(h[n1]) THEN [h |-> [h EXCEPT ![n1] = Forwarded(n2)], r |-> OK]
     ELSE IF is_top(h[n2]) THEN [h |-> [h EXCEPT ![n2] = Forwarded(n1)], r |-> OK]
     ELSE IF is_str(h[n1]) /\ is_str(h[n2])
          THEN IF h[n1].str = h[n2].str
               THEN [h |-> [h EXCEPT ![n1] = Forwarded(n2)], r |-> OK]
               ELSE [h |-> h, r |-> ERR]
     ELSE IF is_edged(h[n1]) /\ is_edged(h[n2])
          THEN Only({ unify_arcs(h1, n1arcs, ArcIter(n1arcs, ord), n2,
                                 locked \cup {n2}, ord)
                      : h1 \in {[h EXCEPT ![n1] = Forwarded(n2)]},
                        n1arcs \in {h[n1].arcs} })
     ELSE [h |-> h, r |-> ERR]
     : n1 \in {dereference(h, a, locked)}, n2 \in {dereference(h, b, locked)} })

\* a unification that lets an atom meet an edged node: the first operand is
\* forwarded to the second and the call returns Ok
unify_atom_with_edged(h, a, b, locked, ord) ==
  Only({
     IF n1 < 1 THEN [h |-> h, r |-> DerefFailure(n1)]
     ELSE IF n2 < 1 THEN [h |-> h, r |-> DerefFailure(n2)]
     ELSE IF n1 = n2 THEN [h |-> h, r |-> OK]
     ELSE IF is_top(h[n1]) THEN [h |-> [h EXCEPT ![n1] = Forwarded(n2)], r |-> OK]
     ELSE IF is_top(h[n2]) THEN [h |-> [h EXCEPT ![n2] = Forwarded(n1)], r |-> OK]
     ELSE IF is_str(h[n1]) /\ is_str(h[n2])
          THEN IF h[n1].str = h[n2].str
               THEN [h |-> [h EXCEPT ![n1] = Forwarded(n2)], r |-> OK]
               ELSE [h |-> h, r |-> ERR]
     ELSE IF is_edged(h[n1]) /\ is_edged(h[n2])
          THEN Only({ unify_arcs(h1, n1arcs, ArcIter(n1arcs, ord), n2,
                                 locked \cup {n2}, ord)
                      : h1 \in {[h EXCEPT ![n1] = Forwarded(n2)]},
                        n1arcs \in {h[n1].arcs} })
     ELSE [h |-> [h EXCEPT ![n1] = Forwarded(n2)], r |-> OK]
     : n1 \in {dereference(h, a, locked)}, n2 \in {dereference(h, b, locked)} })

\* a unification that gives the first of two different atoms the string of
\* the second
unify_overwriting_the_atom(h, a, b, locked, ord) ==
  Only({
     IF n1 < 1 THEN [h |-> h, r |-> DerefFailure(n1)]
     ELSE IF n2 < 1 THEN [h |-> h, r |-> DerefFailure(n2)]
     ELSE IF n1 = n2 THEN [h |-> h, r |-> OK]
     ELSE IF is_top(h[n1]) THEN [h |-> [h EXCEPT ![n1] = Forwarded(n2)], r |-> OK]
     ELSE IF is_top(h[n2]) THEN [h |-> [h EXCEPT ![n2] = Forwarded(n1)], r |-> OK]
     ELSE IF is_str(h[n1]) /\ is_str(h[n2])
          THEN IF h[n1].str = h[n2].str
               THEN [h |-> [h EXCEPT ![n1] = Forwarded(n2)], r |-> OK]
               ELSE [h |-> [h EXCEPT ![n1] = Str(h[n2].str)], r |-> OK]
     ELSE IF is_edged(h[n1]) /\ is_edged(h[n2])
          THEN Only({ unify_arcs(h1, n1arcs, ArcIter(n1arcs, ord), n2,
                                 locked \cup {n2}, ord)
                      : h1 \in {[h EXCEPT ![n1] = Forwarded(n2)]},
                        n1arcs \in {h[n1].arcs} })
     ELSE [h |-> h, r |-> ERR]
     : n1 \in {dereference(h, a, locked)}, n2 \in {dereference(h, b, locked)} })

\* a unification that, finding n1 Top, forwards the handle it was given
\* instead of the node the handle dereferences to
unify_forwarding_the_handle(h, a, b, locked, ord) ==
  Only({
     IF n1 < 1 THEN [h |-> h, r |-> DerefFailure(n1)]
     ELSE IF n2 < 1 THEN [h |-> h, r |-> DerefFailure(n2)]
     ELSE IF n1 = n2 THEN [h |-> h, r |-> OK]
     ELSE IF is_top(h[n1]) THEN [h |-> [h EXCEPT ![a] = Forwarded(n2)], r |-> OK]
     ELSE IF is_top(h[n2]) THEN [h |-> [h EXCEPT ![n2] = Forwarded(n1)], r |-> OK]
     ELSE IF is_str(h[n1]) /\ is_str(h[n2])
          THEN IF h[n1].str = h[n2].str
               THEN [h |-> [h EXCEPT ![n1] = Forwarded(n2)], r |-> OK]
               ELSE [h |-> h, r |-> ERR]
     ELSE IF is_edged(h[n1]) /\ is_edged(h[n2])
          THEN Only({ unify_arcs(h1, n1arcs, ArcIter(n1arcs, ord), n2,
                                 locked \cup {n2}, ord)
                      : h1 \in {[h EXCEPT ![n1] = Forwarded(n2)]},
                        n1arcs \in {h[n1].arcs} })
     ELSE [h |-> h, r |-> ERR]
     : n1 \in {dereference(h, a, locked)}, n2 \in {dereference(h, b, locked)} })

unify(h, a, b, locked, ord) ==
  Only({
     IF n1 < 1 THEN [h |-> h, r |-> DerefFailure(n1)]
     ELSE IF n2 < 1 THEN [h |-> h, r |-> DerefFailure(n2)]
     ELSE IF n1 = n2 THEN [h |-> h, r |-> OK]
     ELSE IF is_top(h[n1]) THEN [h |-> [h EXCEPT ![n1] = Forwarded(n2)], r |-> OK]
     ELSE IF is_top(h[n2]) THEN [h |-> [h EXCEPT ![n2] = Forwarded(n1)], r |-> OK]
     ELSE IF is_str(h[n1]) /\ is_str(h[n2])
          THEN IF h[n1].str = h[n2].str
               THEN [h |-> [h EXCEPT ![n1] = Forwarded(n2)], r |-> OK]
               ELSE [h |-> h, r |-> ERR]
     ELSE IF is_edged(h[n1]) /\ is_edged(h[n2])
          THEN Only({ unify_arcs(h1, n1arcs, ArcIter(n1arcs, ord), n2,
                                 locked \cup {n2}, ord)
                      : h1 \in {[h EXCEPT ![n1] = Forwarded(n2)]},
                        n1arcs \in {h[n1].arcs} })
     ELSE [h |-> h, r |-> ERR]
     : n1 \in {dereference(h, a, locked)}, n2 \in {dereference(h, b, locked)} })

\* NodeRef::unify as a caller outside any unification reaches it
Unify(h, a, b, ord) == unify(h, a, b, {}, ord)

\* NodeRef::_deep_clone.  `seen` maps a source node to its clone; `stack` are
\* the nodes whose clone is being built (a node met again before it is entered
\* in `seen` is cloned again, without end).
RECURSIVE deep_clone_from(_, _, _, _, _)
RECURSIVE deep_clone_arcs(_, _, _, _, _, _, _)

deep_clone_arcs(h, edges, labels, acc, seen, stack, ord) ==
  IF labels = <<>> THEN [h |-> h, seen |-> seen, arcs |-> acc, r |-> OK]
  ELSE Only({ IF c.r # OK THEN [h |-> c.h, seen |-> c.seen, arcs |-> acc, r |-> c.r]
              ELSE Only({ deep_clone_arcs(c.h, edges, Tail(labels), acc1, c.seen, stack, ord)
                          : acc1 \in {ArcInsert(acc, Head(labels), c.n)} })
              : c \in {deep_clone_from(h, edges[Head(labels)], seen, stack, ord)} })

\* the tail of _deep_clone: allocate the clone and enter it in `seen`
deep_clone_done(h, self, seen, cloned) ==
  Only({ [h |-> h1, n |-> Len(h1), r |-> OK,
          seen |-> [x \in DOMAIN seen \cup {self} |-> IF x = self THEN Len(h1) ELSE seen[x]]]
         : h1 \in {NodeRef_new(h, cloned)} })

\* a clone that does not look a node up in `seen`: a node reached twice is
\* cloned twice
deep_clone_unshared(h, self, seen, stack, ord) ==
  IF self \in stack THEN [h |-> h, seen |-> seen, n |-> 0, r |-> OVERFLOW]
  ELSE
    LET node == h[self]
    IN CASE node.kind = "Forwarded" ->
              Only({ IF c.r # OK THEN c ELSE deep_clone_done(c.h, self, c.seen, Forwarded(c.n))
                     : c \in {deep_clone_from(h, node.fwd, seen, stack \cup {self}, ord)} })
         [] node.kind = "Top" -> deep_clone_done(h, self, seen, Top)
         [] node.kind = "Str" -> deep_clone_done(h, self, seen, Str(node.str))
         [] node.kind = "Edged" ->
              Only({ IF c.r # OK THEN [h |-> c.h, seen |-> c.seen, n |-> 0, r |-> c.r]
                     ELSE deep_clone_done(c.h, self, c.seen, Edged(c.arcs))
                     : c \in {deep_clone_arcs(h, node.arcs, ArcIter(node.arcs, ord), NoArcs,
                                              seen, stack \cup {self}, ord)} })

deep_clone_from(h, self, seen, stack, ord) ==
  IF self \in DOMAIN seen THEN [h |-> h, seen |-> seen, n |-> seen[self], r |-> OK]
  ELSE IF self \in stack THEN [h |-> h, seen |-> seen, n |-> 0, r |-> OVERFLOW]
  ELSE
    LET node == h[self]
    IN CASE node.kind = "Forwarded" ->
              Only({ IF c.r # OK THEN c ELSE deep_clone_done(c.h, self, c.seen, Forwarded(c.n))
                     : c \in {deep_clone_from(h, node.fwd, seen, stack \cup {self}, ord)} })
         [] node.kind = "Top" -> deep_clone_done(h, self, seen, Top)
         [] node.kind = "Str" -> deep_clone_done(h, self, seen, Str(node.str))
         [] node.kind = "Edged" ->
              Only({ IF c.r # OK THEN [h |-> c.h, seen |-> c.seen, n |-> 0, r |-> c.r]
                     ELSE deep_clone_done(c.h, self, c.seen, Edged(c.arcs))
                     : c \in {deep_clone_arcs(h, node.arcs, ArcIter(node.arcs, ord), NoArcs,
                                              seen, stack \cup {self}, ord)} })

\* a clone of the reference in place of a clone of the graph (NodeRef::clone)
deep_clone_of_the_reference(h, self, ord) ==
  [h |-> h, seen |-> NoArcs, n |-> self, r |-> OK]

\* NodeRef::deep_clone
deep_clone(h, self, ord) == deep_clone_from(h, self, NoArcs, {}, ord)

\* Node::push_edge on a node not yet behind a NodeRef (new_with_edges' local n)
push_edge_local(h, node, label, target, ord) ==
  LET self == IF is_top(node) THEN new_edged ELSE node
  IN IF is_edged(self)
     THEN IF label \in DOMAIN self.arcs
          THEN Only({ [h |-> u.h, node |-> self, r |-> u.r]
                      : u \in {Unify(h, self.arcs[label], target, ord)} })
          ELSE [h |-> h, node |-> Edged(ArcInsert(self.arcs, label, target)), r |-> OK]
     ELSE [h |-> h, node |-> self, r |-> ERR]

\* NodeRef::new_with_edges: edges is a sequence of <<label, target>>
RECURSIVE new_with_edges_from(_, _, _, _)
new_with_edges_from(h, n, edges, ord) ==
  IF edges = <<>> THEN [h |-> NodeRef_new(h, n), n |-> Len(h) + 1, r |-> OK]
  ELSE Only({ IF p.r # OK THEN [h |-> p.h, n |-> 0, r |-> p.r]
              ELSE new_with_edges_from(p.h, p.node, Tail(edges), ord)
              : p \in {push_edge_local(h, n, Head(edges)[1], Head(edges)[2], ord)} })

new_with_edges(h, edges, ord) == new_with_edges_from(h, new_edged, edges, ord)

\* current.borrow_mut().push_edge(label, target): Node::push_edge on a node of
\* the heap, whose write guard is alive during the call
push_edge(h, current, label, target, ord) ==
  Only({ IF is_edged(h1[current])
         THEN IF label \in DOMAIN h1[current].arcs
              THEN unify(h1, h1[current].arcs[label], target, {current}, ord)
              ELSE [h |-> [h1 EXCEPT ![current] = Edged(ArcInsert(h1[current].arcs, label, target))],
                    r |-> OK]
         ELSE [h |-> h1, r |-> ERR]
         : h1 \in {IF is_top(h[current]) THEN [h EXCEPT ![current] = new_edged] ELSE h} })

\* the inner loop of new_from_paths: walk the dotted path from `current`,
\* creating an edged node per segment and attaching `value` at the last one
RECURSIVE walk_path(_, _, _, _, _)
walk_path(h, current, parts, value, ord) ==
  IF Len(parts) = 1 THEN push_edge(h, current, Head(parts), value, ord)
  ELSE Only({ IF p.r # OK THEN p
              ELSE walk_path(p.h, Len(h) + 1, Tail(parts), value, ord)
              : p \in {push_edge(NodeRef_new(h, new_edged), current, Head(parts),
                                 Len(h) + 1, ord)} })

\* the loop of new_from_paths over the features; tags maps a tag to a NodeRef
RECURSIVE new_from_paths_loop(_, _, _, _, _)

\* a loop that attaches every value at its path and does nothing about tags
new_from_paths_loop_without_tags(h, this, tags, paths, ord) ==
  IF paths = <<>> THEN [h |-> h, n |-> this, r |-> OK]
  ELSE
    LET f == Head(paths)
    IN Only({ IF w.r # OK THEN [h |-> w.h, n |-> 0, r |-> w.r]
              ELSE new_from_paths_loop(w.h, this, tags, Tail(paths), ord)
              : w \in {walk_path(h, this, f.path, f.value, ord)} })

new_from_paths_loop(h, this, tags, paths, ord) ==
  IF paths = <<>> THEN [h |-> h, n |-> this, r |-> OK]
  ELSE
    LET f == Head(paths)
    IN Only({ IF t.r # OK THEN [h |-> t.h, n |-> 0, r |-> t.r]
              ELSE Only({ IF w.r # OK THEN [h |-> w.h, n |-> 0, r |-> w.r]
                          ELSE new_from_paths_loop(w.h, this, tags1, Tail(paths), ord)
                          : w \in {walk_path(t.h, this, f.path, f.value, ord)} })
              : t \in {IF f.tag # NoTag /\ f.tag \in DOMAIN tags
                       THEN Unify(h, f.value, tags[f.tag], ord)
                       ELSE [h |-> h, r |-> OK]},
                tags1 \in {IF f.tag # NoTag /\ f.tag \notin DOMAIN tags
                           THEN ArcInsert(tags, f.tag, f.value)
                           ELSE tags} })

\* NodeRef::new_from_paths: paths is a sequence of Feature whose value is a NodeRef
new_from_paths(h, paths, ord) ==
  new_from_paths_loop(NodeRef_new(h, new_edged), Len(h) + 1, NoArcs, paths, ord)

----------------------------------------------------------------------------
(* featurestructure/serialized.rs *)

SerNone == [kind |-> "None", str |-> "", map |-> NoArcs]
SerStr(s) == [kind |-> "Str", str |-> s, map |-> NoArcs]
SerEdged(m) == [kind |-> "Edged", str |-> "", map |-> m]
\* from_node does not return: it recurses without end through a cycle of arcs
SerLoop == [kind |-> "Loop", str |-> "", map |-> NoArcs]

\* SerializedNode::from_node; `stack` are the nodes being serialized
RECURSIVE from_node_in(_, _, _)
from_node_in(h, n, stack) ==
  Only({
     IF i < 1 \/ i \in stack THEN SerLoop
     ELSE CASE h[i].kind = "Top" -> SerNone
            [] h[i].kind = "Str" -> SerStr(h[i].str)
            [] h[i].kind = "Edged" ->
                 Only({ LET keep == {l \in DOMAIN sub : sub[l].kind # "None"}
                        IN IF \E l \in DOMAIN sub : sub[l].kind = "Loop" THEN SerLoop
                           ELSE IF keep = {} THEN SerNone
                           ELSE SerEdged([l \in keep |-> sub[l]])
                        : sub \in {[l \in DOMAIN h[i].arcs |->
                                      from_node_in(h, h[i].arcs[l], stack \cup {i})]} })
     : i \in {Deref(h, n)} })

from_node(h, n) == from_node_in(h, n, {})

\* SerializedNode::get_path
RECURSIVE get_path(_, _)
get_path(node, path) ==
  IF path = <<>> THEN node
  ELSE IF node.kind = "Edged" /\ Head(path) \in DOMAIN node.map
       THEN get_path(node.map[Head(path)], Tail(path))
       ELSE SerNone

----------------------------------------------------------------------------
(* fgr/parse_grammar.rs: from the authored rules to Rule values *)

ChildLabels == <<"child-0", "child-1", "child-2", "child-3">>
\* format!("child-{}", idx)
ChildLabel(i) == ChildLabels[i + 1]

\* parse_feature_value: allocate the node of every authored feature value
RECURSIVE parse_feature_values(_, _)
parse_feature_values(h, feats) ==
  IF feats = <<>> THEN [h |-> h, feats |-> <<>>]
  ELSE LET f == Head(feats)
       IN Only({ [h |-> rest.h, feats |-> <<Feature(f.path, f.tag, Len(h) + 1)>> \o rest.feats]
                 : rest \in {parse_feature_values(
                                NodeRef_new(h, IF f.value = TOP_STR THEN Top ELSE Str(f.value)),
                                Tail(feats))} })

\* parse_production: a nonterminal keeps its bracketed features, a terminal is
\* annotated with its matching string under "word"
parse_production(h, elem) ==
  IF is_nonterminal(elem.prod) THEN parse_feature_values(h, elem.feats)
  ELSE [h |-> NodeRef_new(h, Str(elem.prod.name)),
        feats |-> <<Feature(<<"word">>, NoTag, Len(h) + 1)>>]

RECURSIVE parse_productions(_, _)
parse_productions(h, elems) ==
  IF elems = <<>> THEN [h |-> h, prods_features |-> <<>>]
  ELSE Only({ Only({ [h |-> rest.h,
                      prods_features |-> <<Elem(Head(elems).prod, p.feats)>> \o rest.prods_features]
                     : rest \in {parse_productions(p.h, Tail(elems))} })
              : p \in {parse_production(h, Head(elems))} })

\* adopt_child_features: the features of the element at idx move under child-idx
RECURSIVE adopt_child_features_from(_, _, _)
adopt_child_features_from(rule_features, prods_features, i) ==
  IF i = Len(prods_features) THEN rule_features
  ELSE LET features == prods_features[i + 1].feats
       IN Only({ adopt_child_features_from(adopted, prods_features, i + 1)
                 : adopted \in {rule_features \o
                                  [j \in 1..Len(features) |->
                                     Feature(<<ChildLabel(i)>> \o features[j].path,
                                             features[j].tag, features[j].value)]} })

adopt_child_features(rule_features, prods_features) ==
  adopt_child_features_from(rule_features, prods_features, 0)

\* parse_rule: one authored rule to a Rule whose features are a graph of the heap
parse_rule(h, a, ord) ==
  Only({ Only({ Only({ Only({
    [h |-> root.h, r |-> root.r,
     rule |-> [symbol |-> a.symbol, features |-> root.n,
               productions |-> [i \in 1..Len(a.elems) |-> a.elems[i].prod]]]
    : root \in {new_from_paths(ps.h, features, ord)} })
    : features \in {adopt_child_features(lhs.feats, ps.prods_features)} })
    : ps \in {parse_productions(lhs.h, a.elems)} })
    : lhs \in {parse_feature_values(h, a.feats)} })

\* parse_rules
RECURSIVE parse_rules(_, _, _)
parse_rules(h, as, ord) ==
  IF as = <<>> THEN [h |-> h, r |-> OK, rules |-> <<>>]
  ELSE Only({ IF first.r # OK THEN [h |-> first.h, r |-> first.r, rules |-> <<>>]
              ELSE Only({ [h |-> rest.h, r |-> rest.r, rules |-> <<first.rule>> \o rest.rules]
                          : rest \in {parse_rules(first.h, Tail(as), ord)} })
              : first \in {parse_rule(h, Head(as), ord)} })

----------------------------------------------------------------------------
(* rules.rs: the grammar *)

\* Rule::len
rule_len(rule) == Len(rule.productions)

\* Grammar::rule_is_nullable
rule_is_nullable(nullables, rule) ==
  \/ rule_len(rule) = 0
  \/ \A i \in 1..rule_len(rule) : rule.productions[i].name \in nullables

\* g.rules.get(symbol): the indices of symbol's rules, in the order authored;
\* an empty sequence stands for None
rules_get(rules, symbol) ==
  SelectSeq([i \in 1..Len(rules) |-> i], LAMBDA i : rules[i].symbol = symbol)

\* rules.values().flatten(): the map's symbols in the order `symord` the
\* HashMap yields them, each symbol's rules in the order authored
rules_values_flatten(rules, symord) ==
  Flatten([j \in 1..Len(symord) |-> rules_get(rules, symord[j])])

\* one pass of find_nullables' for loop
RECURSIVE find_nullables_pass(_, _, _)
find_nullables_pass(rules, nullables, order) ==
  IF order = <<>> THEN nullables
  ELSE LET r == rules[Head(order)]
       IN Only({ find_nullables_pass(rules, found, Tail(order))
                 : found \in {IF r.symbol \notin nullables /\ rule_is_nullable(nullables, r)
                              THEN nullables \cup {r.symbol} ELSE nullables} })

\* a find_nullables that makes one pass over the rules and stops
find_nullables_one_pass(rules, nullables, last_length, order) ==
  find_nullables_pass(rules, nullables, order)

\* find_nullables' while loop
RECURSIVE find_nullables_loop(_, _, _, _)
find_nullables_loop(rules, nullables, last_length, order) ==
  IF last_length = Cardinality(nullables) THEN nullables
  ELSE Only({ find_nullables_loop(rules, found, Cardinality(nullables), order)
              : found \in {find_nullables_pass(rules, nullables, order)} })

\* Grammar::find_nullables
find_nullables(rules, symord) ==
  Only({ find_nullables_loop(rules, {}, 1, order)
         : order \in {rules_values_flatten(rules, symord)} })

\* Grammar::new
Grammar_new(rules, symord) ==
  [start |-> rules[1].symbol,
   rules |-> rules,
   nonterminals |-> {rules[i].symbol : i \in 1..Len(rules)},
   nullables |-> find_nullables(rules, symord)]

\* Grammar::is_nullable
is_nullable(gr, s) == s \in gr.nullables

----------------------------------------------------------------------------
(* earley.rs: the chart parser *)

NoFault == ""

\* State::new(LR0 { rule, pos }, origin); a rule is named by its index in
\* the grammar (an Rc<Rule>)
State(rule, pos, origin) == [rule |-> rule, pos |-> pos, origin |-> origin]

\* LR0::is_active
is_active(gr, st) == st.pos < rule_len(gr.rules[st.rule])

\* LR0::next_production is Some
has_next_production(gr, st) == st.pos < rule_len(gr.rules[st.rule])

\* LR0::next_production, unwrapped
next_production(gr, st) == gr.rules[st.rule].productions[st.pos + 1]

\* State::advance, LR0::advance without its assertion
advance(st) == State(st.rule, st.pos + 1, st.origin)

\* the assertion of LR0::advance
advance_fault(gr, st) == IF is_active(gr, st) THEN NoFault ELSE "assertion failed: self.is_active()"

\* Chart::new
Chart_new(length) == [l \in 0..(length - 1) |-> <<>>]

\* Chart::len
Chart_len(ch) == Cardinality(DOMAIN ch)

\* Chart::len_at
len_at(ch, l) == Len(ch[l])

\* Chart::has
Chart_has(ch, l, st) == \E i \in 1..Len(ch[l]) : ch[l][i] = st

\* a Chart::add that pushes without asking Chart::has
Chart_add_without_has(cf, l, st) ==
  IF cf.fault # NoFault THEN cf
  ELSE IF l \notin DOMAIN cf.chart THEN [cf EXCEPT !.fault = "index out of bounds"]
  ELSE [cf EXCEPT !.chart[l] = Append(@, st)]

\* Chart::add, on a chart paired with the fault met so far
Chart_add(cf, l, st) ==
  IF cf.fault # NoFault THEN cf
  ELSE IF l \notin DOMAIN cf.chart THEN [cf EXCEPT !.fault = "index out of bounds"]
  ELSE IF Chart_has(cf.chart, l, st) THEN cf
  ELSE [cf EXCEPT !.chart[l] = Append(@, st)]

\* Chart::add of an advanced state: LR0::advance asserts before the add
Chart_add_advanced(gr, cf, l, st) ==
  IF cf.fault # NoFault THEN cf
  ELSE IF advance_fault(gr, st) # NoFault THEN [cf EXCEPT !.fault = advance_fault(gr, st)]
  ELSE Chart_add(cf, l, advance(st))

\* a completer loop that advances the completed state, not the one waiting
RECURSIVE completer_loop_advancing_the_completed(_, _, _, _, _, _)
completer_loop_advancing_the_completed(gr, cf, l, st, i, n) ==
  IF i = n \/ cf.fault # NoFault THEN cf
  ELSE LET other == cf.chart[st.origin][i + 1]
       IN Only({ completer_loop_advancing_the_completed(gr, added, l, st, i + 1, n)
                 : added \in {IF has_next_production(gr, other)
                                 /\ symbol_str(next_production(gr, other)) = gr.rules[st.rule].symbol
                              THEN Chart_add_advanced(gr, cf, l, st)
                              ELSE cf} })

\* completer's loop over the states of level state.origin, from index i up to
\* the length n that level had when the loop began
RECURSIVE completer_loop(_, _, _, _, _, _)
completer_loop(gr, cf, l, st, i, n) ==
  IF i = n \/ cf.fault # NoFault THEN cf
  ELSE LET other == cf.chart[st.origin][i + 1]
       IN Only({ completer_loop(gr, added, l, st, i + 1, n)
                 : added \in {IF has_next_production(gr, other)
                                 /\ symbol_str(next_production(gr, other)) = gr.rules[st.rule].symbol
                              THEN Chart_add_advanced(gr, cf, l, other)
                              ELSE cf} })

\* completer
completer(gr, ch, l, st) ==
  IF is_active(gr, st) THEN [chart |-> ch, fault |-> "tried to complete active state"]
  ELSE completer_loop(gr, [chart |-> ch, fault |-> NoFault], l, st, 0, len_at(ch, st.origin))

\* a predictor loop that only predicts: a nullable symbol is not completed early
RECURSIVE predictor_loop_only_predicting(_, _, _, _, _, _)
predictor_loop_only_predicting(gr, cf, l, st, needed_symbol, wanted) ==
  IF wanted = <<>> \/ cf.fault # NoFault THEN cf
  ELSE Only({ predictor_loop_only_predicting(gr, added, l, st, needed_symbol, Tail(wanted))
              : added \in {Chart_add(cf, l, State(Head(wanted), 0, l))} })

\* predictor's loop over the rules that build the needed symbol
RECURSIVE predictor_loop(_, _, _, _, _, _)
predictor_loop(gr, cf, l, st, needed_symbol, wanted) ==
  IF wanted = <<>> \/ cf.fault # NoFault THEN cf
  ELSE Only({ Only({ predictor_loop(gr, early, l, st, needed_symbol, Tail(wanted))
                     : early \in {IF is_nullable(gr, needed_symbol)
                                  THEN Chart_add_advanced(gr, added, l, st)
                                  ELSE added} })
              : added \in {Chart_add(cf, l, State(Head(wanted), 0, l))} })

\* predictor
predictor(gr, ch, l, st) ==
  IF ~is_active(gr, st) THEN [chart |-> ch, fault |-> "tried to predict non-active state"]
  ELSE IF ~is_nonterminal(next_production(gr, st))
       THEN [chart |-> ch, fault |-> "tried to predict a terminal"]
  ELSE LET needed_symbol == symbol_str(next_production(gr, st))
           wanted == rules_get(gr.rules, needed_symbol)
       IN IF wanted = <<>> THEN [chart |-> ch, fault |-> "missing rules for production"]
          ELSE predictor_loop(gr, [chart |-> ch, fault |-> NoFault], l, st, needed_symbol, wanted)

\* a scanner that advances over any token, whatever the terminal it needs
scanner_any_token(gr, ch, l, st, inp) ==
  IF l < Len(inp)
  THEN Chart_add_advanced(gr, [chart |-> ch, fault |-> NoFault], l + 1, st)
  ELSE [chart |-> ch, fault |-> NoFault]

\* scanner
scanner(gr, ch, l, st, inp) ==
  IF ~is_active(gr, st) THEN [chart |-> ch, fault |-> "tried to scan non-active state"]
  ELSE IF ~is_terminal(next_production(gr, st))
       THEN [chart |-> ch, fault |-> "tried to scan a nonterminal"]
  ELSE LET needed_symbol == symbol_str(next_production(gr, st))
       IN IF l < Len(inp) /\ inp[l + 1] = needed_symbol
          THEN Chart_add_advanced(gr, [chart |-> ch, fault |-> NoFault], l + 1, st)
          ELSE [chart |-> ch, fault |-> NoFault]

\* the seeding loop of parse_chart
RECURSIVE parse_chart_seed(_, _)
parse_chart_seed(cf, start_rules) ==
  IF start_rules = <<>> THEN cf
  ELSE Only({ parse_chart_seed(added, Tail(start_rules))
              : added \in {Chart_add(cf, 0, State(Head(start_rules), 0, 0))} })

\* parse_chart up to its main loop
parse_chart_begin(gr, inp) ==
  LET start_rules == rules_get(gr.rules, gr.start)
  IN IF start_rules = <<>>
     THEN [chart |-> Chart_new(Len(inp) + 1), fault |-> "grammar missing start rules"]
     ELSE parse_chart_seed([chart |-> Chart_new(Len(inp) + 1), fault |-> NoFault], start_rules)

----------------------------------------------------------------------------
(* forest.rs: the forest and its tree enumerator *)

\* ForestState::new
ForestState(rule, start, end) == [rule |-> rule, span |-> <<start, end>>]

\* SynTree::Leaf(Word { value, span })
Leaf(word, span) ==
  [leaf |-> TRUE, rule |-> 0, word |-> word, span |-> span, children |-> <<>>]

\* SynTree::Branch(Constituent { value: rule, span }, children)
Branch(rule, span, children) ==
  [leaf |-> FALSE, rule |-> rule, word |-> "", span |-> span, children |-> children]

\* Forest::len
Forest_len(f) == Cardinality(DOMAIN f)

\* the pairs (k, state) Chart::into_iter and the inner loop of from() yield
chart_states(ch) ==
  Flatten([l1 \in 1..Chart_len(ch) |->
             [i \in 1..Len(ch[l1 - 1]) |-> [level |-> l1 - 1, state |-> ch[l1 - 1][i]]]])

\* the loop of Forest::from over the chart's states
RECURSIVE Forest_from_loop(_, _, _)
Forest_from_loop(gr, ff, states) ==
  IF states = <<>> \/ ff.fault # NoFault THEN ff
  ELSE LET st == Head(states).state
       IN Only({ Forest_from_loop(gr, pushed, Tail(states))
                 : pushed \in {IF is_active(gr, st) THEN ff
                               ELSE IF st.origin \notin DOMAIN ff.forest
                               THEN [ff EXCEPT !.fault = "origin > input len"]
                               ELSE [ff EXCEPT !.forest[st.origin] =
                                       Append(@, ForestState(st.rule, st.origin,
                                                             Head(states).level))]} })

\* impl From<Chart> for Forest
Forest_from(gr, ch) ==
  Only({ Forest_from_loop(gr, [forest |-> [o \in 0..(Chart_len(ch) - 2) |-> <<>>],
                               fault |-> NoFault], states)
         : states \in {chart_states(ch)} })

\* Forest::subtree_is_complete
subtree_is_complete(gr, node) ==
  IF node.leaf THEN TRUE ELSE rule_len(gr.rules[node.rule]) = Len(node.children)

\* an extend_out that goes on one token after search_start, whatever the
\* width of the state it placed
RECURSIVE extend_out_one_token_on(_, _, _, _, _, _)
extend_out_one_token_on(f, gr, rule, prod_idx, search_start, search_end) ==
  IF prod_idx = rule_len(gr.rules[rule]) /\ search_start = search_end THEN << <<>> >>
  ELSE IF prod_idx = rule_len(gr.rules[rule]) \/ search_start = search_end THEN <<>>
  ELSE
    LET next == gr.rules[rule].productions[prod_idx + 1]
    IN IF is_nonterminal(next)
       THEN LET wanted_symbol == symbol_str(next)
            IN Only({ Flatten([i \in 1..Len(found) |->
                        Only({ [j \in 1..Len(seqs) |->
                                  <<Branch(found[i].rule, found[i].span, <<>>)>> \o seqs[j]]
                               : seqs \in {extend_out_one_token_on(f, gr, rule, prod_idx + 1,
                                                      search_start + 1, search_end)} })])
                      : found \in {SelectSeq(f[search_start],
                                     LAMBDA s : s.span[2] <= search_end
                                                /\ gr.rules[s.rule].symbol = wanted_symbol)} })
       ELSE LET leaf == Leaf(symbol_str(next), <<search_start, search_start + 1>>)
            IN Only({ [j \in 1..Len(seqs) |-> <<leaf>> \o seqs[j]]
                      : seqs \in {extend_out_one_token_on(f, gr, rule, prod_idx + 1,
                                             search_start + 1, search_end)} })

\* Forest::extend_out
RECURSIVE extend_out(_, _, _, _, _, _)
extend_out(f, gr, rule, prod_idx, search_start, search_end) ==
  IF prod_idx = rule_len(gr.rules[rule]) /\ search_start = search_end THEN << <<>> >>
  ELSE IF prod_idx = rule_len(gr.rules[rule]) \/ search_start = search_end THEN <<>>
  ELSE
    LET next == gr.rules[rule].productions[prod_idx + 1]
    IN IF is_nonterminal(next)
       THEN LET wanted_symbol == symbol_str(next)
            IN Only({ Flatten([i \in 1..Len(found) |->
                        Only({ [j \in 1..Len(seqs) |->
                                  <<Branch(found[i].rule, found[i].span, <<>>)>> \o seqs[j]]
                               : seqs \in {extend_out(f, gr, rule, prod_idx + 1,
                                                      found[i].span[2], search_end)} })])
                      : found \in {SelectSeq(f[search_start],
                                     LAMBDA s : s.span[2] <= search_end
                                                /\ gr.rules[s.rule].symbol = wanted_symbol)} })
       ELSE LET leaf == Leaf(symbol_str(next), <<search_start, search_start + 1>>)
            IN Only({ [j \in 1..Len(seqs) |-> <<leaf>> \o seqs[j]]
                      : seqs \in {extend_out(f, gr, rule, prod_idx + 1,
                                             search_start + 1, search_end)} })

\* combinations
RECURSIVE combinations(_)
combinations(list) ==
  IF list = <<>> THEN <<>>
  ELSE IF Len(list) = 1 THEN [i \in 1..Len(list[1]) |-> <<list[1][i]>>]
  ELSE LET head == Head(list)
       IN Only({ Flatten([i \in 1..Len(subseqs) |->
                            [j \in 1..Len(head) |-> <<head[j]>> \o subseqs[i]]])
                 : subseqs \in {combinations(Tail(list))} })

\* Forest::make_trees.  `open` are the (rule, span) of the branches being
\* filled; make_trees called on one of them again recurses without end, which
\* `ov` records.
RECURSIVE make_trees(_, _, _, _)
RECURSIVE make_trees_fill(_, _, _, _, _)
make_trees(f, gr, tree, open) ==
  IF subtree_is_complete(gr, tree) THEN [ov |-> FALSE, ts |-> <<tree>>]
  ELSE IF <<tree.rule, tree.span>> \in open THEN [ov |-> TRUE, ts |-> <<>>]
  ELSE
    Only({ Only({ [ov |-> \E i \in 1..Len(seqs) : filled[i].ov,
                   ts |-> Flatten([i \in 1..Len(seqs) |-> filled[i].ts])]
                  : filled \in {[i \in 1..Len(seqs) |-> make_trees_fill(f, gr, tree, seqs[i], open)]} })
           : seqs \in {extend_out(f, gr, tree.rule, 0, tree.span[1], tree.span[2])} })

\* the closure make_trees maps over the child sequences of extend_out
make_trees_fill(f, gr, tree, children, open) ==
  Only({ Only({ [ov |-> \E c \in 1..Len(children) : child_sets[c].ov,
                 ts |-> [x \in 1..Len(sets) |-> Branch(tree.rule, tree.span, sets[x])]]
                : sets \in {combinations([c \in 1..Len(children) |-> child_sets[c].ts])} })
         : child_sets \in {[c \in 1..Len(children) |->
                              make_trees(f, gr, children[c],
                                         open \cup {<<tree.rule, tree.span>>})]} })

\* Forest::trees
Forest_trees(f, gr) ==
  IF Forest_len(f) = 0 THEN [ov |-> FALSE, ts |-> <<>>]
  ELSE Only({ Only({ [ov |-> \E i \in 1..Len(root_states) : made[i].ov,
                      ts |-> Flatten([i \in 1..Len(root_states) |-> made[i].ts])]
                     : made \in {[i \in 1..Len(root_states) |->
                                   make_trees(f, gr, Branch(root_states[i].rule,
                                                            root_states[i].span, <<>>), {})]} })
              : root_states \in {SelectSeq(f[0],
                                   LAMBDA s : s.span[2] = Forest_len(f)
                                              /\ gr.rules[s.rule].symbol = gr.start)} })

----------------------------------------------------------------------------
(* lib.rs: the driver *)

\* a bare tree: a branch carries the left-hand-side symbol, a leaf the word
BareLeaf(word, span) == [leaf |-> TRUE, value |-> word, span |-> span, children |-> <<>>]
BareBranch(symbol, span, children) ==
  [leaf |-> FALSE, value |-> symbol, span |-> span, children |-> children]

\* Grammar::unify_tree
RECURSIVE unify_tree(_, _, _, _)
RECURSIVE unify_children(_, _, _, _, _, _, _)

\* a loop that puts every child under the label of the first
unify_children_first_label(h, gr, features, children, i, bare_children, ord) ==
  IF i = Len(children) THEN [h |-> h, r |-> OK, bare |-> bare_children]
  ELSE Only({
         IF child.r # OK THEN [h |-> child.h, r |-> child.r, bare |-> bare_children]
         ELSE Only({
                IF to_unify.r # OK
                THEN [h |-> to_unify.h, r |-> to_unify.r, bare |-> bare_children]
                ELSE Only({
                       IF u.r # OK THEN [h |-> u.h, r |-> u.r, bare |-> bare_children]
                       ELSE Only({ unify_children(u.h, gr, features, children, i + 1, bare, ord)
                                   : bare \in {Append(bare_children, child.tree)} })
                       : u \in {Unify(to_unify.h, features, to_unify.n, ord)} })
                : to_unify \in {new_with_edges(child.h, << <<ChildLabel(0), child.n>> >>, ord)} })
         : child \in {unify_tree(h, gr, children[i + 1], ord)} })

\* the loop of unify_tree over the children, from child idx on
unify_children(h, gr, features, children, i, bare_children, ord) ==
  IF i = Len(children) THEN [h |-> h, r |-> OK, bare |-> bare_children]
  ELSE Only({
         IF child.r # OK THEN [h |-> child.h, r |-> child.r, bare |-> bare_children]
         ELSE Only({
                IF to_unify.r # OK
                THEN [h |-> to_unify.h, r |-> to_unify.r, bare |-> bare_children]
                ELSE Only({
                       IF u.r # OK THEN [h |-> u.h, r |-> u.r, bare |-> bare_children]
                       ELSE Only({ unify_children(u.h, gr, features, children, i + 1, bare, ord)
                                   : bare \in {Append(bare_children, child.tree)} })
                       : u \in {Unify(to_unify.h, features, to_unify.n, ord)} })
                : to_unify \in {new_with_edges(child.h, << <<ChildLabel(i), child.n>> >>, ord)} })
         : child \in {unify_tree(h, gr, children[i + 1], ord)} })

unify_tree(h, gr, tree, ord) ==
  IF tree.leaf
  THEN [h |-> NodeRef_new(h, Top), r |-> OK, tree |-> BareLeaf(tree.word, tree.span),
        n |-> Len(h) + 1]
  ELSE Only({
         IF features.r # OK
         THEN [h |-> features.h, r |-> features.r, tree |-> BareLeaf("", tree.span), n |-> 0]
         ELSE Only({ [h |-> cs.h, r |-> cs.r, n |-> features.n,
                      tree |-> BareBranch(gr.rules[tree.rule].symbol, tree.span, cs.bare)]
                     : cs \in {unify_children(features.h, gr, features.n, tree.children,
                                              0, <<>>, ord)} })
         : features \in {deep_clone(h, gr.rules[tree.rule].features, ord)} })

\* a filter_map that collects its results in the order a hash gives them
RECURSIVE parse_filter_map(_, _, _, _, _)
parse_filter_map_in_hash_order(h, gr, ts, kept, ord) ==
  IF ts = <<>>
  THEN [h |-> h, fault |-> NoFault,
        results |-> IF ord[1] = "child-0" THEN kept
                    ELSE [i \in 1..Len(kept) |-> kept[Len(kept) + 1 - i]]]
  ELSE Only({
         IF u.r = OK
         THEN Only({ parse_filter_map(u.h, gr, Tail(ts), kept1, ord)
                     : kept1 \in {Append(kept, [tree |-> u.tree, features |-> u.n])} })
         ELSE IF u.r = ERR THEN parse_filter_map(u.h, gr, Tail(ts), kept, ord)
         ELSE [h |-> u.h, fault |-> u.r, results |-> kept]
         : u \in {unify_tree(h, gr, Head(ts), ord)} })

\* a filter_map that ends at the first tree whose unification returns Err
parse_filter_map_until_failure(h, gr, ts, kept, ord) ==
  IF ts = <<>> THEN [h |-> h, fault |-> NoFault, results |-> kept]
  ELSE Only({
         IF u.r = OK
         THEN Only({ parse_filter_map(u.h, gr, Tail(ts), kept1, ord)
                     : kept1 \in {Append(kept, [tree |-> u.tree, features |-> u.n])} })
         ELSE IF u.r = ERR THEN [h |-> u.h, fault |-> NoFault, results |-> kept]
         ELSE [h |-> u.h, fault |-> u.r, results |-> kept]
         : u \in {unify_tree(h, gr, Head(ts), ord)} })

\* the filter_map of Grammar::parse over the candidate trees: a tree whose
\* unification returns Err is dropped; an abort ends the call
parse_filter_map(h, gr, ts, kept, ord) ==
  IF ts = <<>> THEN [h |-> h, fault |-> NoFault, results |-> kept]
  ELSE Only({
         IF u.r = OK
         THEN Only({ parse_filter_map(u.h, gr, Tail(ts), kept1, ord)
                     : kept1 \in {Append(kept, [tree |-> u.tree, features |-> u.n])} })
         ELSE IF u.r = ERR THEN parse_filter_map(u.h, gr, Tail(ts), kept, ord)
         ELSE [h |-> u.h, fault |-> u.r, results |-> kept]
         : u \in {unify_tree(h, gr, Head(ts), ord)} })

----------------------------------------------------------------------------
(* The grammars and inputs the model explores *)

F(path, value) == Feature(path, NoTag, value)
Tagged(path, tag) == Feature(path, tag, TOP_STR)

\* forest.rs test_tree_generation: the ambiguous grammar
GAmbiguous ==
  << Authored("S", <<>>, <<T("x")>>),
     Authored("S", <<>>, <<N("S"), N("S")>>) >>

\* rules.rs test_find_nullables: nullables are B and D
GNullable ==
  << Authored("S", <<>>, <<N("A"), N("B")>>),
     Authored("A", <<>>, <<T("c")>>),
     Authored("B", <<>>, <<N("D"), N("D")>>),
     Authored("D", <<>>, <<>>) >>

\* a nullable symbol in front of a terminal
GNullFirst ==
  << Authored("S", <<>>, <<N("D"), N("A")>>),
     Authored("D", <<>>, <<>>),
     Authored("A", <<>>, <<T("c")>>) >>

\* left recursion
GLeftRec ==
  << Authored("S", <<>>, <<N("S"), T("y")>>),
     Authored("S", <<>>, <<T("x")>>) >>

\* a unit cycle S -> S
GUnit ==
  << Authored("S", <<>>, <<N("S")>>),
     Authored("S", <<>>, <<T("x")>>) >>

\* a nullable start symbol, right recursion
GNullStart ==
  << Authored("S", <<>>, <<T("x"), N("S")>>),
     Authored("S", <<>>, <<>>) >>

\* a terminal between two symbols of several widths
GMiddle ==
  << Authored("S", <<>>, <<N("A"), T("x"), N("B")>>),
     Authored("S", <<>>, <<T("y"), N("B")>>),
     Authored("A", <<>>, <<>>),
     Authored("A", <<>>, <<T("y")>>),
     Authored("B", <<>>, <<T("y")>>),
     Authored("B", <<>>, <<T("x"), T("y")>>) >>

\* a nullable constituent of two empty children between two words
GNullMiddle ==
  << Authored("S", <<>>, <<N("A"), N("B"), N("A")>>),
     Authored("A", <<>>, <<T("c")>>),
     Authored("B", <<>>, <<N("D"), N("D")>>),
     Authored("D", <<>>, <<>>) >>

\* a rule of two symbols that are each empty or a word
GNullTwice ==
  << Authored("S", <<>>, <<N("A"), N("A")>>),
     Authored("A", <<>>, <<T("x")>>),
     Authored("A", <<>>, <<>>) >>

\* lib.rs test_unification_blocking: the reflexive grammar
GReflexive ==
  << Authored("S", <<>>,
       << NF("N", <<F(<<"case">>, "nom"), Tagged(<<"pron">>, "1")>>),
          N("TV"),
          NF("N", <<F(<<"case">>, "acc"), Tagged(<<"needs_pron">>, "1")>>) >>),
     Authored("TV", <<>>, <<T("likes")>>),
     Authored("N", <<F(<<"case">>, "nom"), F(<<"pron">>, "she")>>, <<T("she")>>),
     Authored("N", <<F(<<"case">>, "nom"), F(<<"pron">>, "he")>>, <<T("he")>>),
     Authored("N", <<F(<<"case">>, "acc"), F(<<"pron">>, "he")>>, <<T("him")>>),
     Authored("N", <<F(<<"case">>, "acc"), F(<<"pron">>, "ref"), F(<<"needs_pron">>, "he")>>,
              <<T("himself")>>) >>

\* lib.rs tutorial: number agreement through a tag
GAgreement ==
  << Authored("S", <<>>,
       << NF("N", <<F(<<"case">>, "nom"), Tagged(<<"num">>, "1")>>),
          NF("IV", <<Tagged(<<"num">>, "1")>>) >>),
     Authored("N", <<F(<<"num">>, "sg"), F(<<"case">>, "nom"), F(<<"pron">>, "he")>>,
              <<T("he")>>),
     Authored("IV", <<F(<<"num">>, "sg"), F(<<"tense">>, "nonpast")>>, <<T("falls")>>),
     Authored("IV", <<F(<<"num">>, "pl"), F(<<"tense">>, "nonpast")>>, <<T("fall")>>) >>

Grammars ==
  {GAmbiguous, GNullable, GNullFirst, GLeftRec, GUnit, GNullStart, GMiddle, GNullMiddle, GNullTwice,
   GReflexive, GAgreement}

\* the symbols on the left of an authored grammar's rules
Lhs(a) == {a[i].symbol : i \in 1..Len(a)}

\* the terminals an authored grammar names
Terminals(a) ==
  UNION {{a[i].elems[j].prod.name :
            j \in {x \in 1..Len(a[i].elems) : is_terminal(a[i].elems[x].prod)}} :
         i \in 1..Len(a)}

\* a word no grammar names
Unknown == "zz"

\* the token sequences handed to parse
Inputs(a) == SeqsUpTo(Terminals(a) \cup {Unknown}, MaxLen)

\* the orders a HashMap of arcs may be iterated in
AllLabels == ChildLabels \o <<"word", "case", "pron", "needs_pron", "num", "tense">>
Reverse(s) == [i \in 1..Len(s) |-> s[Len(s) + 1 - i]]
ArcOrders == {AllLabels, Reverse(AllLabels)}

----------------------------------------------------------------------------
(* The parse pipeline as a state machine *)

NoGrammar == [start |-> "", rules |-> <<>>, nonterminals |-> {}, nullables |-> {}]

Init ==
  /\ pc = "new"
  /\ authored \in Grammars
  /\ grammar = NoGrammar
  /\ heap = <<>>
  /\ input = <<>>
  /\ chart = Chart_new(1)
  /\ k = 0
  /\ idx = 0
  /\ forest = Chart_new(0)
  /\ trees = <<>>
  /\ results = <<>>
  /\ fault = NoFault
  /\ fs = <<>>

\* impl FromStr for Grammar: read the rules, build their feature graphs, then
\* Grammar::new
FromStr ==
  /\ pc = "new"
  /\ \E symord \in Perms(Lhs(authored)), ord \in ArcOrders :
       \E read \in {parse_rules(<<>>, authored, ord)} :
          IF authored = <<>> THEN
            /\ pc' = "failed" /\ fault' = "empty ruleset"
            /\ UNCHANGED <<grammar, heap>>
          ELSE IF read.r # OK THEN
            /\ pc' = "failed" /\ fault' = read.r
            /\ heap' = read.h
            /\ UNCHANGED grammar
          ELSE
            /\ pc' = "ready"
            /\ grammar' = Grammar_new(read.rules, symord)
            /\ heap' = read.h
            /\ UNCHANGED fault
  /\ UNCHANGED <<authored, input, chart, k, idx, forest, trees, results, fs>>

\* Grammar::parse is called: parse_chart allocates and seeds the chart
ParseBegin ==
  /\ pc = "ready"
  /\ \E inp \in Inputs(authored) :
       \E cf \in {parse_chart_begin(grammar, inp)} :
          /\ input' = inp
          /\ chart' = cf.chart
          /\ fault' = cf.fault
          /\ pc' = IF cf.fault = NoFault THEN "chart" ELSE "failed"
  /\ k' = 0
  /\ idx' = 0
  /\ UNCHANGED <<authored, grammar, heap, forest, trees, results, fs>>

\* the state the inner loop of parse_chart visits next
Current == chart[k][idx + 1]

\* a turn of the inner loop that forgets idx += 1
ChartStep_without_increment(step) ==
  \E cf \in {step} :
  /\ chart' = cf.chart
  /\ fault' = cf.fault
  /\ pc' = IF cf.fault = NoFault THEN "chart" ELSE "failed"
  /\ idx' = idx
  /\ UNCHANGED <<authored, grammar, heap, input, k, forest, trees, results, fs>>

ChartStep(step) ==
  \E cf \in {step} :
  /\ chart' = cf.chart
  /\ fault' = cf.fault
  /\ pc' = IF cf.fault = NoFault THEN "chart" ELSE "failed"
  /\ idx' = idx + 1
  /\ UNCHANGED <<authored, grammar, heap, input, k, forest, trees, results, fs>>

\* one turn of the inner loop: the state has no next production
Completer ==
  /\ pc = "chart"
  /\ idx < len_at(chart, k)
  /\ ~has_next_production(grammar, Current)
  /\ ChartStep(completer(grammar, chart, k, Current))

\* one turn of the inner loop: the next production is a nonterminal
Predictor ==
  /\ pc = "chart"
  /\ idx < len_at(chart, k)
  /\ has_next_production(grammar, Current)
  /\ is_nonterminal(next_production(grammar, Current))
  /\ ChartStep(predictor(grammar, chart, k, Current))

\* one turn of the inner loop: the next production is a terminal
Scanner ==
  /\ pc = "chart"
  /\ idx < len_at(chart, k)
  /\ has_next_production(grammar, Current)
  /\ is_terminal(next_production(grammar, Current))
  /\ ChartStep(scanner(grammar, chart, k, Current, input))

\* the inner loop ends: the outer loop goes to the next level, or parse_chart returns
NextLevel ==
  /\ pc = "chart"
  /\ idx = len_at(chart, k)
  /\ IF k + 1 < Chart_len(chart)
     THEN /\ k' = k + 1 /\ idx' = 0 /\ pc' = "chart"
     ELSE /\ pc' = "forest" /\ UNCHANGED <<k, idx>>
  /\ UNCHANGED <<authored, grammar, heap, input, chart, forest, trees, results, fault, fs>>

\* Grammar::parse_forest: Forest::from(chart)
ForestFrom ==
  /\ pc = "forest"
  /\ \E ff \in {Forest_from(grammar, chart)} :
        /\ forest' = ff.forest
        /\ fault' = ff.fault
        /\ pc' = IF ff.fault = NoFault THEN "trees" ELSE "failed"
  /\ UNCHANGED <<authored, grammar, heap, input, chart, k, idx, trees, results, fs>>

\* forest.trees(self)
ForestTrees ==
  /\ pc = "trees"
  /\ \E made \in {Forest_trees(forest, grammar)} :
        /\ trees' = made.ts
        /\ fault' = IF made.ov THEN OVERFLOW ELSE NoFault
        /\ pc' = IF made.ov THEN "failed" ELSE "unify"
  /\ UNCHANGED <<authored, grammar, heap, input, chart, k, idx, forest, results, fs>>

\* the filter_map over the trees; Grammar::parse returns
UnifyTrees ==
  /\ pc = "unify"
  /\ \E ord \in ArcOrders :
       \E out \in {parse_filter_map(heap, grammar, trees, <<>>, ord)} :
          /\ heap' = out.h
          /\ results' = out.results
          /\ fault' = out.fault
          /\ pc' = IF out.fault = NoFault THEN "done" ELSE "failed"
  /\ UNCHANGED <<authored, grammar, input, chart, k, idx, forest, trees, fs>>

Next ==
  \/ FromStr
  \/ ParseBegin
  \/ Completer
  \/ Predictor
  \/ Scanner
  \/ NextLevel
  \/ ForestFrom
  \/ ForestTrees
  \/ UnifyTrees

Spec == Init /\ [][Next]_vars

----------------------------------------------------------------------------
(* The claims about the parse pipeline *)

\* Grammar::parse has returned, or aborted
ParseEnded == pc \in {"done", "failed"} /\ grammar # NoGrammar

\* C1: Grammar::parse never fails or panics: on every grammar that was built
\* and every token sequence the call returns a list of results; in particular
\* the index by origin of Forest::from never hits its expect.
C1_ParseNeverPanics ==
  ParseEnded => pc = "done" /\ fault = NoFault

\* the leaves of a tree, left to right
RECURSIVE LeavesOf(_)
LeavesOf(tree) ==
  IF tree.leaf THEN <<tree>>
  ELSE Flatten([c \in 1..Len(tree.children) |-> LeavesOf(tree.children[c])])

\* the leaves spell inp: the i-th has span (i, i+1) and the i-th word
SpellsInput(tree, inp) ==
  LeavesOf(tree) = [i \in 1..Len(inp) |-> Leaf(inp[i], <<i - 1, i>>)]

\* Forest::trees has returned
TreesReturned == pc \in {"unify", "done"}

\* C2: every tree Forest::trees returns has exactly N leaves, the i-th of span
\* (i, i+1) and of word input[i].
C2_LeavesSpellInput ==
  TreesReturned => \A t \in 1..Len(trees) : SpellsInput(trees[t], input)

\* parse_chart has returned its chart
ChartReturned ==
  \/ pc \in {"forest", "trees", "unify", "done"}
  \/ pc = "failed" /\ fault \in {"origin > input len", OVERFLOW}

\* the last set of the chart holds a completed item of a start rule, of origin 0
Accepted(gr, ch, n) ==
  \E i \in 1..len_at(ch, n) :
    /\ ~is_active(gr, ch[n][i])
    /\ ch[n][i].origin = 0
    /\ gr.rules[ch[n][i].rule].symbol = gr.start

\* C3: the chart's last set holds a completed start item of origin 0 if and
\* only if Forest::trees returns at least one tree.
C3_AcceptedIffTrees ==
  TreesReturned => (Accepted(grammar, chart, Len(input)) <=> trees # <<>>)

\* C4: on the nullable grammar S -> A B, A -> c, B -> D D, D -> (empty), parsing
\* ["c"] returns exactly one tree.
C4_NullableOneTree ==
  (authored = GNullable /\ input = <<"c">> /\ ParseEnded)
    => (pc = "done" /\ Len(trees) = 1 /\ Len(results) = 1)

\* The derivation trees of inp[i+1..j] from sym, by the grammar alone: the
\* rules of sym, each with every split of the span among its productions.
\* `visiting` are the (symbol, span) being derived: a derivation that needs
\* itself is left out.
RECURSIVE DerivationsOf(_, _, _, _, _, _)
RECURSIVE ChildSeqs(_, _, _, _, _, _)
ChildSeqs(gr, inp, prods, i, j, visiting) ==
  IF prods = <<>> THEN (IF i = j THEN {<<>>} ELSE {})
  ELSE IF is_terminal(Head(prods))
       THEN IF i < j /\ inp[i + 1] = symbol_str(Head(prods))
            THEN {<<Leaf(inp[i + 1], <<i, i + 1>>)>> \o s
                    : s \in ChildSeqs(gr, inp, Tail(prods), i + 1, j, visiting)}
            ELSE {}
       ELSE UNION {
              {<<t>> \o s : t \in DerivationsOf(gr, inp, symbol_str(Head(prods)), i, m, visiting),
                            s \in ChildSeqs(gr, inp, Tail(prods), m, j, visiting)}
              : m \in i..j }

DerivationsOf(gr, inp, sym, i, j, visiting) ==
  IF <<sym, i, j>> \in visiting THEN {}
  ELSE UNION {
         {Branch(r, <<i, j>>, s)
            : s \in ChildSeqs(gr, inp, gr.rules[r].productions, i, j,
                              visiting \cup {<<sym, i, j>>})}
         : r \in Range(rules_get(gr.rules, sym)) }

\* C5: Forest::trees returns each derivation tree of the input exactly once and
\* nothing else; for S -> x | S S on x x x that is exactly 2 trees.
C5_ExactlyTheDerivations ==
  TreesReturned =>
    /\ \A a, b \in 1..Len(trees) : trees[a] = trees[b] => a = b
    /\ Range(trees) = DerivationsOf(grammar, input, grammar.start, 0, Len(input), {})
    /\ (authored = GAmbiguous /\ input = <<"x", "x", "x">>) => Len(trees) = 2

\* inp[i+1..j] is derivable from sym, by the grammar alone.  `visiting` are the
\* (symbol, span) being derived: a derivation that needs itself proves nothing.
RECURSIVE Derives(_, _, _, _, _, _)
RECURSIVE DerivesSeq(_, _, _, _, _, _)
DerivesSeq(gr, inp, prods, i, j, visiting) ==
  IF prods = <<>> THEN i = j
  ELSE IF is_terminal(Head(prods))
       THEN /\ i < j
            /\ inp[i + 1] = symbol_str(Head(prods))
            /\ DerivesSeq(gr, inp, Tail(prods), i + 1, j, visiting)
       ELSE \E m \in i..j :
              /\ Derives(gr, inp, symbol_str(Head(prods)), i, m, visiting)
              /\ DerivesSeq(gr, inp, Tail(prods), m, j, visiting)

Derives(gr, inp, sym, i, j, visiting) ==
  /\ <<sym, i, j>> \notin visiting
  /\ \E r \in Range(rules_get(gr.rules, sym)) :
       DerivesSeq(gr, inp, gr.rules[r].productions, i, j, visiting \cup {<<sym, i, j>>})

\* C6: the chart's last set holds a completed start item of origin 0 if and
\* only if the input is derivable from the start symbol; the empty input is
\* accepted if and only if the start symbol is nullable.
C6_RecognitionCorrect ==
  ChartReturned =>
    /\ Accepted(grammar, chart, Len(input))
         <=> Derives(grammar, input, grammar.start, 0, Len(input), {})
    /\ input = <<>> => (Accepted(grammar, chart, 0) <=> is_nullable(grammar, grammar.start))

\* C6's case: a left-recursive grammar accepts an input of the longest length
C6_Witness_LeftRecursive ==
  /\ ChartReturned /\ authored = GLeftRec /\ Len(input) = MaxLen
  /\ Accepted(grammar, chart, Len(input))

\* the sets of symbols closed under the rules of nullability: a symbol with a
\* rule that is empty, or made of nonterminals of the set only, is in the set
NullableClosed(rules) ==
  {X \in SUBSET {rules[i].symbol : i \in 1..Len(rules)} :
     \A i \in 1..Len(rules) :
       (\A p \in 1..rule_len(rules[i]) :
          is_nonterminal(rules[i].productions[p]) /\ rules[i].productions[p].name \in X)
         => rules[i].symbol \in X}

\* the least of them: the symbols in every closed set
LeastNullable(rules) ==
  {s \in {rules[i].symbol : i \in 1..Len(rules)} : \A X \in NullableClosed(rules) : s \in X}

\* C7: the nullable set of the grammar is the least set closed under the rules
\* of nullability, whatever order the rules are visited in, and is_nullable
\* answers by it; for S -> A B, A -> c, B -> D D, D -> (empty) it is {B, D}.
C7_NullableClosure ==
  grammar # NoGrammar =>
    /\ grammar.nullables = LeastNullable(grammar.rules)
    /\ \A s \in grammar.nonterminals :
         is_nullable(grammar, s) <=> s \in LeastNullable(grammar.rules)
    /\ authored = GNullable => grammar.nullables = {"B", "D"}

\* C7's case: the grammar of the test is built and B and D are its nullables
C7_Witness_NullableBD ==
  /\ grammar # NoGrammar /\ authored = GNullable
  /\ is_nullable(grammar, "B") /\ is_nullable(grammar, "D")

\* the tree parse returns for a candidate: symbols for rules
RECURSIVE BareOf(_, _)
BareOf(gr, tree) ==
  IF tree.leaf THEN BareLeaf(tree.word, tree.span)
  ELSE BareBranch(gr.rules[tree.rule].symbol, tree.span,
                  [c \in 1..Len(tree.children) |-> BareOf(gr, tree.children[c])])

\* the candidates whose rule graphs unify with their children's, each taken
\* alone on the grammar's graphs as read
UnifiableAlone(ord0, ord1) ==
  Only({ SelectSeq(trees, LAMBDA t : unify_tree(h0, grammar, t, ord1).r = OK)
         : h0 \in {parse_rules(<<>>, authored, ord0).h} })

\* the reflexive grammar's reading of "subject likes object": the subject is
\* nominative, the object accusative, and himself needs he
ReflexiveReading(inp) ==
  /\ Len(inp) = 3
  /\ inp[1] \in {"he", "she"}
  /\ inp[2] = "likes"
  /\ inp[3] \in {"him", "himself"}
  /\ inp[3] = "himself" => inp[1] = "he"

\* C8: parse returns a candidate tree if and only if the cloned graph of every
\* branch's rule unifies with the graphs of its children under the child-i
\* edges; on the reflexive grammar it returns 1 result for "he likes himself",
\* "he likes him", "she likes him" and none for "himself likes himself",
\* "she likes himself", "himself likes him".
C8_UnificationFilters ==
  pc = "done" =>
    /\ \A ord0, ord1 \in ArcOrders :
         [i \in 1..Len(results) |-> results[i].tree]
           = [i \in 1..Len(UnifiableAlone(ord0, ord1)) |->
                BareOf(grammar, UnifiableAlone(ord0, ord1)[i])]
    /\ authored = GReflexive =>
         /\ Len(results) = (IF ReflexiveReading(input) THEN 1 ELSE 0)
         /\ input \in {<<"he", "likes", "himself">>, <<"he", "likes", "him">>,
                       <<"she", "likes", "him">>} => Len(results) = 1
         /\ input \in {<<"himself", "likes", "himself">>, <<"she", "likes", "himself">>,
                       <<"himself", "likes", "him">>} => Len(results) = 0

\* C8's case: the one candidate of "she likes himself" was filtered out
C8_Witness_Blocked ==
  /\ pc = "done" /\ authored = GReflexive
  /\ input = <<"she", "likes", "himself">>
  /\ Len(trees) = 1 /\ results = <<>>

\* the node a path of labels leads to from n, 0 if there is none
RECURSIVE node_at(_, _, _)
node_at(h, n, path) ==
  LET i == Deref(h, n)
  IN IF i < 1 THEN 0
     ELSE IF path = <<>> THEN i
     ELSE IF is_edged(h[i]) /\ Head(path) \in DOMAIN h[i].arcs
          THEN node_at(h, h[i].arcs[Head(path)], Tail(path))
          ELSE 0

\* C9: on the agreement grammar parse(["he", "falls"]) returns exactly one
\* result, and in its graph child-0.num and child-1.num lead to the same node,
\* the atom sg.
C9_ReentrancySurvives ==
  (pc = "done" /\ authored = GAgreement /\ input = <<"he", "falls">>) =>
    /\ Len(results) = 1
    /\ node_at(heap, results[1].features, <<"child-0", "num">>)
         = node_at(heap, results[1].features, <<"child-1", "num">>)
    /\ node_at(heap, results[1].features, <<"child-0", "num">>) > 0
    /\ heap[node_at(heap, results[1].features, <<"child-0", "num">>)] = Str("sg")

\* C9's case: he falls was parsed
C9_Witness_HeFalls ==
  /\ pc = "done" /\ authored = GAgreement /\ input = <<"he", "falls">>
  /\ results # <<>>

----------------------------------------------------------------------------
(* Feature graphs on their own: built from paths, unified in both orders *)

\* most features of a graph built from paths
MaxFeatures == 2

\* the features a graph is built from: atoms that agree and clash, a nested
\* path, and tagged values that share a node
FsFeatures ==
  { F(<<"num">>, "sg"), F(<<"case">>, "pl"), F(<<"num", "case">>, "sg"),
    Tagged(<<"num">>, "1"), Tagged(<<"case">>, "1"), Tagged(<<"case", "num">>, "1") }

FsPaths == SeqsUpTo(FsFeatures, MaxFeatures)

\* a unification not yet run
NoRun == [h |-> <<>>, r |-> ""]

\* parse_feature_value on every value, then NodeRef::new_from_paths
fs_new_from_paths(h, feats, ord) ==
  Only({ new_from_paths(vals.h, vals.feats, ord) : vals \in {parse_feature_values(h, feats)} })

InitFS ==
  /\ pc = "fs_new"
  /\ authored = <<>>
  /\ grammar = NoGrammar
  /\ heap = <<>>
  /\ input = <<>>
  /\ chart = Chart_new(1)
  /\ k = 0
  /\ idx = 0
  /\ forest = Chart_new(0)
  /\ trees = <<>>
  /\ results = <<>>
  /\ fault = NoFault
  /\ fs = <<>>

\* two graphs a and b are built by NodeRef::new_from_paths
FsNewFromPaths ==
  /\ pc = "fs_new"
  /\ \E pa, pb \in FsPaths, ord \in ArcOrders :
       \E a \in {fs_new_from_paths(<<>>, pa, ord)} :
       \E b \in {IF a.r = OK THEN fs_new_from_paths(a.h, pb, ord) ELSE a} :
          IF b.r = OK
          THEN /\ pc' = "fs_built"
               /\ heap' = b.h
               /\ fs' = [a |-> a.n, b |-> b.n, h0 |-> b.h, ba |-> NoRun]
               /\ UNCHANGED fault
          ELSE /\ pc' = "fs_failed"
               /\ heap' = b.h
               /\ fault' = b.r
               /\ UNCHANGED fs
  /\ UNCHANGED <<authored, grammar, input, chart, k, idx, forest, trees, results>>

\* NodeRef::unify(a, b)
FsUnify ==
  /\ pc = "fs_built"
  /\ \E ord \in ArcOrders :
       \E u \in {Unify(heap, fs.a, fs.b, ord)} :
          /\ heap' = u.h
          /\ fault' = (IF u.r = OK THEN NoFault ELSE u.r)
  /\ pc' = "fs_unified"
  /\ UNCHANGED <<authored, grammar, input, chart, k, idx, forest, trees, results, fs>>

\* NodeRef::unify(b, a) on independent copies of the two graphs as built
FsUnifyCopies ==
  /\ pc = "fs_unified"
  /\ \E ord \in ArcOrders :
       \E u \in {Unify(fs.h0, fs.b, fs.a, ord)} :
          fs' = [fs EXCEPT !.ba = u]
  /\ pc' = "fs_done"
  /\ UNCHANGED <<authored, grammar, heap, input, chart, k, idx, forest, trees, results, fault>>

NextFS ==
  \/ FsNewFromPaths
  \/ FsUnify
  \/ FsUnifyCopies

SpecFS == InitFS /\ [][NextFS]_vars

\* unify(a, b) returned Ok
FsOk == fault = NoFault

\* C10: unify(a, b) succeeds if and only if unify(b, a) succeeds on independent
\* copies, and when they succeed the serialized results are equal.
C10_UnifySymmetric ==
  pc = "fs_done" =>
    /\ FsOk <=> fs.ba.r = OK
    /\ FsOk => /\ from_node(heap, fs.a) = from_node(fs.ba.h, fs.b)
               /\ from_node(heap, fs.a) = from_node(heap, fs.b)
               /\ from_node(fs.ba.h, fs.a) = from_node(fs.ba.h, fs.b)

\* C10's case: both orders succeeded on graphs that each brought an arc the
\* other lacked
C10_Witness_BothSucceed ==
  /\ pc = "fs_done" /\ FsOk /\ fs.ba.r = OK
  /\ from_node(fs.h0, fs.a).kind = "Edged"
  /\ from_node(fs.h0, fs.b).kind = "Edged"
  /\ from_node(fs.h0, fs.a) # from_node(fs.h0, fs.b)
  /\ from_node(heap, fs.a) # from_node(fs.h0, fs.a)
  /\ from_node(heap, fs.a) # from_node(fs.h0, fs.b)

----------------------------------------------------------------------------
(* Feature graphs under sequences of operations: nodes are allocated, graphs
   built from paths, then unified and deep-cloned in any order *)

\* most operations applied to the graphs once they are built
MaxOps == 2

\* NodeRef::new_top and NodeRef::new_str
new_top(h) == [h |-> NodeRef_new(h, Top), n |-> Len(h) + 1, r |-> OK]
new_str(h, s) == [h |-> NodeRef_new(h, Str(s)), n |-> Len(h) + 1, r |-> OK]

\* a tagged feature with a value of its own: path: #tag value
TaggedValue(path, tag, value) == Feature(path, tag, value)

\* the feature lists the graphs are built from
NodePaths ==
  { <<F(<<"num">>, "sg")>>,
    <<F(<<"num">>, "pl")>>,
    <<F(<<"pron">>, "sg")>>,
    <<F(<<"num", "case">>, "sg")>>,
    <<F(<<"num">>, "sg"), F(<<"case">>, "pl")>>,
    \* reentrancy: two paths, one node
    <<Tagged(<<"num">>, "1"), Tagged(<<"case">>, "1")>>,
    <<Tagged(<<"num", "case">>, "1"), Tagged(<<"pron">>, "1")>>,
    \* unified with num: #1, case: #1 this one closes a cycle
    <<Tagged(<<"num">>, "1"), Tagged(<<"case", "pron">>, "1")>>,
    \* a cycle as authored: the value of num is also the value of num.case
    <<Tagged(<<"num">>, "1"), Tagged(<<"num", "case">>, "1")>>,
    \* values that do not unify, under one tag and at one path
    <<TaggedValue(<<"num">>, "1", "sg"), TaggedValue(<<"case">>, "1", "pl")>>,
    <<F(<<"num">>, "sg"), F(<<"num">>, "pl")>> }

\* what the caller allocates: a Top node, an atom, or a graph from paths
NodeInputs ==
  {[kind |-> "top", str |-> "", paths |-> <<>>],
   [kind |-> "str", str |-> "sg", paths |-> <<>>],
   [kind |-> "str", str |-> "pl", paths |-> <<>>]}
  \cup {[kind |-> "paths", str |-> "", paths |-> p] : p \in NodePaths}

\* the allocation of one input; `feats` are its features with their value nodes
node_alloc(h, inp, ord) ==
  IF inp.kind = "top" THEN Only({ [h |-> t.h, n |-> t.n, r |-> OK, feats |-> <<>>]
                                  : t \in {new_top(h)} })
  ELSE IF inp.kind = "str" THEN Only({ [h |-> t.h, n |-> t.n, r |-> OK, feats |-> <<>>]
                                       : t \in {new_str(h, inp.str)} })
  ELSE Only({ Only({ [h |-> g.h, n |-> g.n, r |-> g.r, feats |-> vals.feats]
                     : g \in {new_from_paths(vals.h, vals.feats, ord)} })
              : vals \in {parse_feature_values(h, inp.paths)} })

\* the record of one operation: its operands, the heap before it, its outcome
\* and what it returned
Op(op, x, y, h0, r, out) == [op |-> op, x |-> x, y |-> y, h0 |-> h0, r |-> r, out |-> out]

\* the last two operations
Remember(hist, rec) == IF hist = <<>> THEN <<rec>> ELSE <<hist[Len(hist)], rec>>

InitNode ==
  /\ pc = "node_new"
  /\ authored = <<>>
  /\ grammar = NoGrammar
  /\ heap = <<>>
  /\ input = <<>>
  /\ chart = Chart_new(1)
  /\ k = 0
  /\ idx = 0
  /\ forest = Chart_new(0)
  /\ trees = <<>>
  /\ results = <<>>
  /\ fault = NoFault
  /\ fs = [roots |-> {}, n |-> 0, hist |-> <<>>]

\* the operation returned (Ok or Err), or it never returns
NodeAfter(r) == IF r \in {OK, ERR} THEN "node_ops" ELSE "node_hung"

\* the caller allocates a node or builds a graph: the first two operations
NodeAlloc ==
  /\ pc \in {"node_new", "node_one"}
  /\ \E inp \in NodeInputs, ord \in ArcOrders :
       \E g \in {node_alloc(heap, inp, ord)} :
          /\ heap' = g.h
          /\ fs' = [roots |-> IF g.r = OK THEN fs.roots \cup {g.n} ELSE fs.roots,
                    n |-> 0,
                    hist |-> Remember(fs.hist,
                              Op("alloc", 0, 0, heap, g.r,
                                 [h |-> g.h, n |-> g.n, r |-> g.r, feats |-> g.feats,
                                  given |-> inp.paths]))]
          /\ pc' = IF g.r = ERR THEN "node_failed"
                   ELSE IF g.r # OK THEN "node_hung"
                   ELSE IF pc = "node_new" THEN "node_one" ELSE "node_ops"
          /\ fault' = IF g.r = OK THEN NoFault ELSE g.r
  /\ UNCHANGED <<authored, grammar, input, chart, k, idx, forest, trees, results>>

\* NodeRef::new_top
NodeNewTop ==
  /\ pc = "node_ops" /\ fs.n < MaxOps
  /\ \E t \in {new_top(heap)} :
       /\ heap' = t.h
       /\ fs' = [roots |-> fs.roots \cup {t.n}, n |-> fs.n + 1,
                 hist |-> Remember(fs.hist, Op("new_top", 0, 0, heap, OK, t.n))]
  /\ UNCHANGED <<pc, authored, grammar, input, chart, k, idx, forest, trees, results, fault>>

\* NodeRef::unify(x, y) on two nodes the caller holds
NodeUnify ==
  /\ pc = "node_ops" /\ fs.n < MaxOps
  /\ \E x, y \in fs.roots, ord \in ArcOrders :
       \E u \in {Unify(heap, x, y, ord)} :
          /\ heap' = u.h
          /\ fs' = [fs EXCEPT !.n = fs.n + 1,
                              !.hist = Remember(fs.hist, Op("unify", x, y, heap, u.r, 0))]
          /\ pc' = NodeAfter(u.r)
          /\ fault' = IF u.r = OK THEN NoFault ELSE u.r
  /\ UNCHANGED <<authored, grammar, input, chart, k, idx, forest, trees, results>>

\* x.deep_clone() on a node the caller holds
NodeDeepClone ==
  /\ pc = "node_ops" /\ fs.n < MaxOps
  /\ \E x \in fs.roots, ord \in ArcOrders :
       \E c \in {deep_clone(heap, x, ord)} :
          /\ heap' = c.h
          /\ fs' = [roots |-> IF c.r = OK THEN fs.roots \cup {c.n} ELSE fs.roots,
                    n |-> fs.n + 1,
                    hist |-> Remember(fs.hist, Op("deep_clone", x, 0, heap, c.r, c.n))]
          /\ pc' = NodeAfter(c.r)
          /\ fault' = IF c.r = OK THEN NoFault ELSE c.r
  /\ UNCHANGED <<authored, grammar, input, chart, k, idx, forest, trees, results>>

NextNode ==
  \/ NodeAlloc
  \/ NodeNewTop
  \/ NodeUnify
  \/ NodeDeepClone

SpecNode == InitNode /\ [][NextNode]_vars

\* the last operation and the one before it
Last == fs.hist[Len(fs.hist)]
Prev == fs.hist[1]

----------------------------------------------------------------------------
(* The claims about the feature graphs under sequences of operations *)

\* the last operation was unify(x, y) and it returned Ok
UnifiedOk(rec) == rec.op = "unify" /\ rec.r = OK

\* the last two operations were the same call unify(x, y), the first returning Ok
UnifiedTwice ==
  /\ Len(fs.hist) = 2
  /\ UnifiedOk(Prev)
  /\ Last.op = "unify" /\ Last.x = Prev.x /\ Last.y = Prev.y

\* C11: after unify(x, y) returns Ok, x and y dereference to the same node, and
\* the same call made again returns Ok and changes no node of the heap.
C11_UnifyIdempotent ==
  fs.hist # <<>> =>
    /\ UnifiedOk(Last) => /\ Deref(heap, Last.x) >= 1
                          /\ Deref(heap, Last.x) = Deref(heap, Last.y)
    /\ UnifiedTwice => Last.r = OK /\ heap = Last.h0

\* C11's case: two distinct graphs were merged, the heap changed, and the call
\* was made a second time
C11_Witness_SecondCall ==
  /\ fs.hist # <<>>
  /\ UnifiedTwice
  /\ Prev.x # Prev.y
  /\ is_edged(Prev.h0[Deref(Prev.h0, Prev.x)])
  /\ is_edged(Prev.h0[Deref(Prev.h0, Prev.y)])
  /\ Prev.h0 # Last.h0

\* the Top node the operation `rec` allocated, 0 if it allocated none
FreshTopOf(rec) ==
  IF rec.op = "new_top" THEN rec.out
  ELSE IF rec.op = "alloc" /\ rec.r = OK /\ rec.out.feats = <<>> /\ is_top(rec.out.h[rec.out.n])
       THEN rec.out.n
       ELSE 0

\* the last operation unified the Top node just allocated with another node
UnifiedWithFreshTop ==
  /\ Len(fs.hist) = 2
  /\ Last.op = "unify"
  /\ FreshTopOf(Prev) >= 1
  /\ FreshTopOf(Prev) \in {Last.x, Last.y}

\* the operand that is not the fresh Top
OtherThan(t, rec) == IF rec.x = t THEN rec.y ELSE rec.x

\* C12: for a fresh Top node t and any node X, unify(t, X) and unify(X, t)
\* return Ok, and afterwards t and X both serialize to what X serialized to
\* before the call (a graph whose serialization did not return before the call
\* is one whose serialization does not return after it).
C12_TopIsIdentity ==
  (fs.hist # <<>> /\ UnifiedWithFreshTop) =>
    /\ Last.r = OK
    /\ \A t \in {FreshTopOf(Prev)} : \A X \in {OtherThan(t, Last)} :
         \A before \in {from_node(Last.h0, X)} :
            /\ from_node(heap, t) = before
            /\ from_node(heap, X) = before

\* C12's case: unify(X, t) ran on a graph X that serializes to arcs
C12_Witness_GraphThenTop ==
  /\ fs.hist # <<>>
  /\ UnifiedWithFreshTop
  /\ Last.y = FreshTopOf(Prev) /\ Last.x # Last.y
  /\ from_node(Last.h0, Last.x).kind = "Edged"

\* the paths of labels the graphs explored can hold
LabelPaths == SeqsUpTo({"num", "case", "pron"}, 2)

\* the last operation was x.deep_clone()
Cloned == fs.hist # <<>> /\ Last.op = "deep_clone"

\* whenever two paths from n lead to one node, they lead to one node from m
SharingKept(h, n, m) ==
  \A p, q \in LabelPaths :
     \A np \in {node_at(h, n, p)} :
        (np >= 1 /\ np = node_at(h, n, q)) =>
           \A mp \in {node_at(h, m, p)} : mp >= 1 /\ mp = node_at(h, m, q)

\* C13: for every node n, deep_clone(n) returns a node that serializes as n
\* does, and two paths that lead to one node from n lead to one node from the
\* clone.
C13_DeepClonePreserves ==
  Cloned =>
    /\ Last.r = OK
    /\ from_node(heap, Last.out) = from_node(heap, Last.x)
    /\ from_node(heap, Last.x) = from_node(Last.h0, Last.x)
    /\ SharingKept(heap, Last.x, Last.out)

\* the graph under n has no cycle through its arcs
Acyclic(h, n) == from_node(h, n) # SerLoop

----------------------------------------------------------------------------
(* Grammar::parse called again and again on one grammar *)

\* what a call of Grammar::parse returned, as a caller can observe it: the bare
\* trees, in order, each with its serialized feature graph
Returned(h, res) ==
  [i \in 1..Len(res) |-> [tree |-> res[i].tree, features |-> from_node(h, res[i].features)]]

\* inputs parsed between two parses of one input: its first word replaced
OtherInputs(a, inp) ==
  IF inp = <<>> THEN {}
  ELSE {[inp EXCEPT ![1] = t] : t \in Terminals(a)} \ {inp}

\* the calls that follow the first: the same input again, or another input and
\* then the first input again
InputsAgain ==
  IF fs = <<>> THEN {input} \cup OtherInputs(authored, input)
  ELSE IF fs.calls = 2 /\ input # fs.input THEN {fs.input}
  ELSE {}

\* Grammar::parse has returned and is called again on the same grammar
ParseAgain ==
  /\ pc = "done"
  /\ \E inp \in InputsAgain :
       \E cf \in {parse_chart_begin(grammar, inp)} :
          /\ input' = inp
          /\ chart' = cf.chart
          /\ fault' = cf.fault
          /\ pc' = IF cf.fault = NoFault THEN "chart" ELSE "failed"
  /\ fs' = IF fs = <<>>
           THEN [calls |-> 2, input |-> input, returned |-> Returned(heap, results)]
           ELSE [fs EXCEPT !.calls = fs.calls + 1]
  /\ k' = 0
  /\ idx' = 0
  /\ forest' = Chart_new(0)
  /\ trees' = <<>>
  /\ results' = <<>>
  /\ UNCHANGED <<authored, grammar, heap>>

NextAgain ==
  \/ FromStr
  \/ ParseBegin
  \/ Completer
  \/ Predictor
  \/ Scanner
  \/ NextLevel
  \/ ForestFrom
  \/ ForestTrees
  \/ UnifyTrees
  \/ ParseAgain

SpecAgain == Init /\ [][NextAgain]_vars

\* the nodes a node refers to: the target of its forwarding, the targets of its arcs
Refers(node) ==
  IF node.kind = "Forwarded" THEN {node.fwd}
  ELSE IF node.kind = "Edged" THEN {node.arcs[l] : l \in DOMAIN node.arcs}
  ELSE {}

\* the nodes reachable from the nodes of `from`
RECURSIVE Reach(_, _, _)
Reach(h, from, found) ==
  IF from \subseteq found THEN found
  ELSE Only({ Reach(h, UNION {Refers(h[n]) : n \in now}, now)
              : now \in {found \cup from} })

\* the nodes of the rules' feature graphs
TemplateNodes(h, gr) == Reach(h, {gr.rules[i].features : i \in 1..Len(gr.rules)}, {})

\* the nodes of the feature graphs a parse returned
ResultNodes(h, res) == Reach(h, {res[i].features : i \in 1..Len(res)}, {})

\* C14: once the grammar is built, no step of any parse, whether its
\* derivations unify or fail, changes a node that existed before the step
\* (steps only allocate), so every rule's feature graph keeps its nodes,
\* variants, arcs and forwarding; and the graphs a parse returns share no node
\* with the rules' graphs.
C14_GrammarUntouched ==
  [][grammar # NoGrammar =>
       /\ Len(heap') >= Len(heap)
       /\ SubSeq(heap', 1, Len(heap)) = heap
       /\ TemplateNodes(heap', grammar') = TemplateNodes(heap, grammar)
       /\ \A n \in TemplateNodes(heap, grammar) : heap'[n] = heap[n]
       /\ ResultNodes(heap', results') \cap TemplateNodes(heap', grammar') = {}]_vars

\* C14's case: a parse whose one derivation unified has returned, and then a
\* parse whose one derivation failed in unification
C14_Witness_FailedAfterUnified ==
  /\ pc = "done" /\ fs # <<>>
  /\ fs.returned # <<>>
  /\ trees # <<>> /\ results = <<>>
  /\ Len(heap) > Cardinality(TemplateNodes(heap, grammar))

\* a later call of Grammar::parse on the input of the first call has returned
ParsedAgain == pc = "done" /\ fs # <<>> /\ input = fs.input

\* C15: a call of Grammar::parse on the input of an earlier call on the same
\* grammar, whatever was parsed in between, returns the same bare trees in the
\* same order, with equal serialized feature graphs.
C15_ParseDeterministic ==
  ParsedAgain => Returned(heap, results) = fs.returned

\* C15's case: the input was parsed, then another input, then the first again,
\* and the parse returns a tree with a feature graph
C15_Witness_ThirdCall ==
  /\ ParsedAgain
  /\ fs.calls = 3
  /\ results # <<>>
  /\ Returned(heap, results)[1].features.kind = "Edged"

\* C16: in every state reached by allocations, graph constructions, deep
\* clones and unifications, returned Ok or Err, dereference of any node
\* terminates on a node that is not Forwarded, and dereferencing that node
\* again gives the same node.
C16_ForwardingAcyclic ==
  \A n \in 1..Len(heap) :
     \A d \in {Deref(heap, n)} :
        /\ d >= 1
        /\ heap[d].kind # "Forwarded"
        /\ Deref(heap, d) = d

\* C16's case: a unification returned Err half way, after an earlier one, and
\* left a node forwarded to a node that is itself forwarded
C16_Witness_ChainAfterFailure ==
  /\ pc = "node_ops" /\ Len(fs.hist) = 2
  /\ Last.op = "unify" /\ Last.r = ERR /\ Last.h0 # heap
  /\ \E n \in 1..Len(heap) :
        /\ heap[n].kind = "Forwarded"
        /\ heap[heap[n].fwd].kind = "Forwarded"

\* an operation that never returns: a cloning or a serialization that recurses
\* without end, a unification that waits for a lock it holds
Hung == pc = "node_hung"

\* C17: on a graph with a cycle through its arcs, as on any other, unify and
\* deep_clone return and serialization returns.
C17_NoLoopOnCycles ==
  /\ ~Hung
  /\ pc \in {"node_one", "node_ops"} => \A x \in fs.roots : from_node(heap, x) # SerLoop

\* two nodes clash: atoms with different strings, or an atom and an edged node
Clash(h, u, v) ==
  \/ is_str(h[u]) /\ is_str(h[v]) /\ h[u].str # h[v].str
  \/ is_str(h[u]) /\ is_edged(h[v])
  \/ is_edged(h[u]) /\ is_str(h[v])

\* the pairs of nodes that unifying the pairs of `same` makes one: the relation
\* is symmetric and transitive, and the children of two edged nodes under a
\* label both have are made one with them
RECURSIVE MadeOne(_, _)
MadeOne(h, same) ==
  Only({ IF more \subseteq same THEN same ELSE MadeOne(h, same \cup more)
         : more \in {
             {<<p[2], p[1]>> : p \in same}
             \cup {<<pq[1][1], pq[2][2]>> : pq \in {e \in same \X same : e[1][2] = e[2][1]}}
             \cup UNION {
                    {<<Deref(h, h[p[1]].arcs[l]), Deref(h, h[p[2]].arcs[l])>>
                       : l \in DOMAIN h[p[1]].arcs \cap DOMAIN h[p[2]].arcs}
                    : p \in {e \in same : is_edged(h[e[1]]) /\ is_edged(h[e[2]])}} } })

\* unifying u and v makes two nodes one that clash
ClashBelow(h, u, v) == \E p \in MadeOne(h, {<<u, v>>}) : Clash(h, p[1], p[2])

Built == fs.hist # <<>> /\ Last.op = "alloc" /\ Last.out.given # <<>>

\* two records of a batch whose values, as given, do not unify: atoms with
\* different strings
ValuesClash(given, i, j) ==
  /\ given[i].value # TOP_STR /\ given[j].value # TOP_STR
  /\ given[i].value # given[j].value

\* the graph {num: {case: #1}, pron: #1} of Top values, and the graph {pron: sg}
TagExample(h, g1, g2) ==
  /\ from_node(h, g1) = SerNone
  /\ node_at(h, g1, <<"num", "case">>) >= 1
  /\ node_at(h, g1, <<"num", "case">>) = node_at(h, g1, <<"pron">>)
  /\ from_node(h, g2) = SerEdged([l \in {"pron"} |-> SerStr("sg")])

\* {num: {case: sg}, pron: sg}
TagExampleUnified ==
  SerEdged([l \in {"num", "pron"} |->
              IF l = "pron" THEN SerStr("sg")
              ELSE SerEdged([m \in {"case"} |-> SerStr("sg")])])

\* C19: when new_from_paths returns Ok, every record's path leads to its value
\* and two records with one tag have values that dereference to one node;
\* unifying {num.case: #1, pron: #1} with {pron: sg}, in either order, makes
\* both roots serialize to {num: {case: sg}, pron: sg}; and when two records
\* with one tag, or with one path, have values that do not unify,
\* new_from_paths returns Err.
C19_TagSemantics ==
  /\ (Built /\ Last.r = OK) =>
        \A i, j \in 1..Len(Last.out.feats) :
           \A fi \in {Last.out.feats[i]}, fj \in {Last.out.feats[j]} :
              /\ node_at(heap, Last.out.n, fi.path) = Deref(heap, fi.value)
              /\ (fi.tag # NoTag /\ fi.tag = fj.tag) =>
                    Deref(heap, fi.value) = Deref(heap, fj.value)
  /\ (fs.hist # <<>> /\ Last.op = "unify"
        /\ (TagExample(Last.h0, Last.x, Last.y) \/ TagExample(Last.h0, Last.y, Last.x))) =>
        /\ Last.r = OK
        /\ from_node(heap, Last.x) = TagExampleUnified
        /\ from_node(heap, Last.y) = TagExampleUnified
  /\ Built =>
        \A i, j \in 1..Len(Last.out.given) :
           \A gi \in {Last.out.given[i]}, gj \in {Last.out.given[j]} :
              (/\ i < j
               /\ (gi.tag # NoTag /\ gi.tag = gj.tag) \/ gi.path = gj.path
               /\ ValuesClash(Last.out.given, i, j)) => Last.r = ERR

\* C19's case: the tagged graph and {pron: sg} were built and unified
C19_Witness_TagBound ==
  /\ fs.hist # <<>> /\ UnifiedOk(Last)
  /\ TagExample(Last.h0, Last.x, Last.y)
  /\ from_node(heap, Last.x) = TagExampleUnified

\* new_from_paths returned Err on two values under one tag
TagClashRefused ==
  /\ Built /\ Last.r = ERR
  /\ Last.out.given[1].tag # NoTag

----------------------------------------------------------------------------
(* Grammar construction on rule lists of any kind *)

\* a rule that names a nonterminal no rule builds: S -> x B
GMissing ==
  << Authored("S", <<>>, <<T("x"), N("B")>>) >>

\* a grammar text without a rule
GNone == <<>>

InitAny ==
  /\ pc = "new"
  /\ authored \in Grammars \cup {GMissing, GNone}
  /\ grammar = NoGrammar
  /\ heap = <<>>
  /\ input = <<>>
  /\ chart = Chart_new(1)
  /\ k = 0
  /\ idx = 0
  /\ forest = Chart_new(0)
  /\ trees = <<>>
  /\ results = <<>>
  /\ fault = NoFault
  /\ fs = <<>>

SpecAny == InitAny /\ [][Next]_vars

\* the nonterminals the right-hand sides of a grammar's rules name
Referenced(gr) ==
  UNION {{symbol_str(gr.rules[i].productions[j]) :
            j \in {x \in 1..rule_len(gr.rules[i]) : is_nonterminal(gr.rules[i].productions[x])}} :
         i \in 1..Len(gr.rules)}

\* C20: construction yields no Grammar when the rule list is empty or when a
\* right-hand side names a nonterminal that no rule builds; so every
\* nonterminal a constructed grammar refers to has a rule, and the predictor
\* never reaches 'missing rules for production'.
C20_ConstructionValidates ==
  /\ (pc # "new" /\ authored = <<>>) => (pc = "failed" /\ grammar = NoGrammar)
  /\ grammar # NoGrammar => Referenced(grammar) \subseteq grammar.nonterminals
  /\ fault # "missing rules for production"

\* construction refuses the empty rule list
EmptyRefused == (pc # "new" /\ authored = <<>>) => (pc = "failed" /\ grammar = NoGrammar)

----------------------------------------------------------------------------
(* The parse pipeline as a running program: a call that can take a step takes it *)

SpecLive == Init /\ [][Next]_vars /\ WF_vars(Next)

\* C21: on every grammar explored (left-recursive rules, unit cycles and
\* nullable symbols among them) and every input, the loop of parse_chart over
\* the levels 0..N reaches its end: parse_chart returns the chart.
C21_ChartTerminates == (pc = "chart") ~> (pc = "forest")

\* C21's case: the chart of a left-recursive grammar over three tokens is built
C21_Witness_LeftRecursiveBuilt ==
  /\ pc = "forest"
  /\ authored = GLeftRec
  /\ input = <<"x", "y", "y">>
  /\ \A l \in DOMAIN chart : chart[l] # <<>>

----------------------------------------------------------------------------
(* C22: chart deduplication *)

InParseChart == pc \in {"chart", "forest", "trees", "unify", "done"}

NoTwins(ch) ==
  \A l \in DOMAIN ch : \A i, j \in 1..Len(ch[l]) : ch[l][i] = ch[l][j] => i = j

\* C22: in every state of parse_chart no set C[k] holds two items with the
\* same rule, dot position and origin, and Chart::add of an item that C[k]
\* already holds leaves the chart as it was.
C22_ChartDeduplicated ==
  InParseChart =>
    /\ NoTwins(chart)
    /\ \A l \in DOMAIN chart : \A i \in 1..Len(chart[l]) :
          Chart_add([chart |-> chart, fault |-> NoFault], l, chart[l][i]).chart = chart

\* the predictor has just run on chart[k][idx], and every item it predicts
\* was in C[k] before it ran: each of its adds met an item already present
C22_Witness_PredictedAgain ==
  /\ pc = "chart" /\ idx >= 1
  /\ has_next_production(grammar, chart[k][idx])
  /\ is_nonterminal(next_production(grammar, chart[k][idx]))
  /\ \A r \in Range(rules_get(grammar.rules, symbol_str(next_production(grammar, chart[k][idx])))) :
        \E i \in 1..idx : chart[k][i] = State(r, 0, k)

----------------------------------------------------------------------------
(* C23: the spans of a returned tree *)


\* the children of a branch with span (s, e) go from s to e, each starting
\* where the one before it ends, and so do the children of every branch below
RECURSIVE SpansPartition(_)
SpansPartition(tree) ==
  \/ tree.leaf
  \/ tree.children = <<>> /\ tree.span[1] = tree.span[2]
  \/ /\ tree.children # <<>>
     /\ tree.children[1].span[1] = tree.span[1]
     /\ tree.children[Len(tree.children)].span[2] = tree.span[2]
     /\ \A c \in 1..Len(tree.children) :
           /\ tree.children[c].span[1] <= tree.children[c].span[2]
           /\ c > 1 => tree.children[c].span[1] = tree.children[c - 1].span[2]
           /\ SpansPartition(tree.children[c])

\* C23: in every tree Forest::trees returns the root spans (0, N) and the
\* children of every branch partition the branch's span, in order, without
\* gap or overlap.
C23_SpanPartition ==
  TreesReturned =>
    \A t \in 1..Len(trees) :
       /\ trees[t].span = <<0, Len(input)>>
       /\ SpansPartition(trees[t])

\* x x x under S -> x | S S: both trees returned, one with a first child two
\* tokens wide, one with a second child two tokens wide
C23_Witness_WideChildren ==
  /\ pc = "unify" /\ authored = GAmbiguous /\ Len(input) = 3
  /\ \E t \in 1..Len(trees) : trees[t].children[1].span = <<0, 2>>
  /\ \E t \in 1..Len(trees) : trees[t].children[2].span = <<1, 3>>

----------------------------------------------------------------------------
(* C24: the final chart is closed under completion, prediction and scan *)

ChartBuilt == pc = "forest"

\* completion of st, found in C[l]: every item of C[st.origin] that waits for
\* the symbol of st is in C[l], advanced
CompletionClosed(l, st) ==
  \A i \in 1..Len(chart[st.origin]) :
     (/\ has_next_production(grammar, chart[st.origin][i])
      /\ symbol_str(next_production(grammar, chart[st.origin][i])) = grammar.rules[st.rule].symbol)
     => Chart_has(chart, l, advance(chart[st.origin][i]))

\* prediction from st, found in C[l] with a nonterminal after its dot
PredictionClosed(l, st) ==
  /\ \A r \in Range(rules_get(grammar.rules, symbol_str(next_production(grammar, st)))) :
        Chart_has(chart, l, State(r, 0, l))
  /\ is_nullable(grammar, symbol_str(next_production(grammar, st)))
        => Chart_has(chart, l, advance(st))

\* scan of st, found in C[l] with a terminal after its dot
ScanClosed(l, st) ==
  (l < Len(input) /\ input[l + 1] = symbol_str(next_production(grammar, st)))
     => Chart_has(chart, l + 1, advance(st))

\* C24: when parse_chart returns, every completed item has advanced every item
\* that waits for its symbol at its origin (also when the origin is its own
\* set), every nonterminal after a dot is predicted and, if nullable, stepped
\* over, and every terminal after a dot that is the next token is scanned.
C24_ChartClosed ==
  ChartBuilt =>
    \A l \in DOMAIN chart : \A n \in 1..Len(chart[l]) :
       IF ~has_next_production(grammar, chart[l][n]) THEN CompletionClosed(l, chart[l][n])
       ELSE IF is_nonterminal(next_production(grammar, chart[l][n]))
            THEN PredictionClosed(l, chart[l][n])
            ELSE ScanClosed(l, chart[l][n])

\* c under S -> A B, B -> D D, D -> (empty): D -> . is completed in C[1] with
\* origin 1 before B -> D . D is there, and B -> D D . is in C[1] all the same
C24_Witness_CompletedInItsOwnSet ==
  /\ pc = "forest" /\ authored = GNullable /\ input = <<"c">>
  /\ \E n, m \in 1..Len(chart[1]) :
        /\ n < m
        /\ chart[1][n].origin = 1 /\ chart[1][n].pos = 0
        /\ rule_len(grammar.rules[chart[1][n].rule]) = 0
        /\ chart[1][m].origin = 1 /\ chart[1][m].pos = 1
        /\ Chart_has(chart, 1, advance(chart[1][m]))

----------------------------------------------------------------------------
(* C25: the forest Forest::from builds from the chart *)

\* Forest::from has run on the chart: it returned the forest or it panicked
ForestFromRan == pc \in {"trees", "unify", "done"} \/ fault = "origin > input len"

\* the completed items of origin i, level after level and in insertion order,
\* each as the forest item of its rule over (i, level)
CompletedFrom(i) ==
  LET done == SelectSeq(chart_states(chart),
                LAMBDA ls : ~is_active(grammar, ls.state) /\ ls.state.origin = i)
  IN [n \in 1..Len(done) |-> ForestState(done[n].state.rule, i, done[n].level)]

\* C25: Forest::from returns a forest that holds at every origin i of 0..N
\* the completed chart items of origin i, one forest item (rule, (i, k)) each,
\* by increasing k and then in insertion order, and nothing else.
C25_ForestFromChart ==
  ForestFromRan =>
    /\ fault # "origin > input len"
    /\ \A i \in 0..Len(input) :
          /\ CompletedFrom(i) # <<>> => i \in DOMAIN forest
          /\ i \in DOMAIN forest => forest[i] = CompletedFrom(i)

\* the claim's example: S -> x | S S on x x x
C25_ExampleHolds ==
  (ForestFromRan /\ authored = GAmbiguous /\ input = <<"x", "x", "x">>)
    => /\ [i \in DOMAIN forest |-> [n \in 1..Len(forest[i]) |-> forest[i][n].span]]
            = [i \in 0..2 |-> CASE i = 0 -> << <<0, 1>>, <<0, 2>>, <<0, 3>> >>
                                [] i = 1 -> << <<1, 2>>, <<1, 3>> >>
                                [] i = 2 -> << <<2, 3>> >>]
       /\ \A i \in DOMAIN forest : \A n \in 1..Len(forest[i]) :
             rule_len(grammar.rules[forest[i][n].rule])
                = IF forest[i][n].span[2] = i + 1 THEN 1 ELSE 2

----------------------------------------------------------------------------
(* C26: the variants a feature node goes through *)

\* what a node was and what it is one operation later
VariantStep(was, is) ==
  \/ is = was
  \/ was.kind = "Top"
  \/ was.kind = "Str" /\ is.kind = "Forwarded"
  \/ was.kind = "Edged" /\ is.kind \in {"Edged", "Forwarded"}
  \/ was.kind = "Forwarded" /\ is.kind = "Forwarded"

\* C26: whatever construction, deep clone or unification runs, every node
\* stays a node and changes its variant only from Top to any other, or from
\* Atom or Edged to Forwarded: a Forwarded node stays Forwarded, and an Atom
\* keeps its string until it is forwarded and never becomes Edged.
C26_NodeVariants ==
  [][\A n \in DOMAIN heap : n \in DOMAIN heap' /\ VariantStep(heap[n], heap'[n])]_vars

\* one unification forwarded an Edged node and an Atom, and a node that was
\* Forwarded before the call is the same Forwarded node after it
C26_Witness_ForwardedByUnify ==
  /\ fs.hist # <<>> /\ Last.op = "unify" /\ Last.r = OK
  /\ \E n \in DOMAIN Last.h0 : Last.h0[n].kind = "Edged" /\ heap[n].kind = "Forwarded"
  /\ \E n \in DOMAIN Last.h0 : Last.h0[n].kind = "Str" /\ heap[n].kind = "Forwarded"
  /\ \E n \in DOMAIN Last.h0 : Last.h0[n].kind = "Forwarded" /\ heap[n] = Last.h0[n]

----------------------------------------------------------------------------
(* C30: merged handles stay merged *)

\* two handles of the heap h that dereference to one node
Merged(h, a, b) == Deref(h, a) >= 1 /\ Deref(h, a) = Deref(h, b)

\* C30: two node handles that dereference to the same node dereference to
\* the same node after every further operation, a unification that fails
\* included.
C30_MergingIsPermanent ==
  [][\A a, b \in DOMAIN heap :
        Merged(heap, a, b) => (a \in DOMAIN heap' /\ b \in DOMAIN heap' /\ Merged(heap', a, b))]_vars

\* two handles were one node before a unification that failed, the call
\* forwarded that node, and both handles now dereference to the node it was
\* forwarded to
C30_Witness_MovedTogether ==
  /\ fs.hist # <<>> /\ Last.op = "unify" /\ Last.r = ERR
  /\ \E a, b \in DOMAIN Last.h0 :
        /\ a # b
        /\ Merged(Last.h0, a, b)
        /\ Deref(heap, a) # Deref(Last.h0, a)
        /\ Merged(heap, a, b)

----------------------------------------------------------------------------
(* C27: parse keeps the candidates that unify, in the order of Forest::trees *)

\* three readings of one word, the second of which cannot agree with the
\* verb: the agreement is asked for by X, one branch below the root
GPrune ==
  << Authored("S", <<>>, <<N("X")>>),
     Authored("X", <<>>,
       << NF("N", <<Tagged(<<"num">>, "1")>>), NF("IV", <<Tagged(<<"num">>, "1")>>) >>),
     Authored("N", <<F(<<"num">>, "sg"), F(<<"case">>, "nom")>>, <<T("fish")>>),
     Authored("N", <<F(<<"num">>, "pl")>>, <<T("fish")>>),
     Authored("N", <<F(<<"num">>, "sg"), F(<<"case">>, "acc")>>, <<T("fish")>>),
     Authored("IV", <<F(<<"num">>, "sg")>>, <<T("swims")>>) >>

InitPrune ==
  /\ pc = "new"
  /\ authored \in {GPrune, GAgreement, GReflexive, GAmbiguous}
  /\ grammar = NoGrammar
  /\ heap = <<>>
  /\ input = <<>>
  /\ chart = Chart_new(1)
  /\ k = 0
  /\ idx = 0
  /\ forest = Chart_new(0)
  /\ trees = <<>>
  /\ results = <<>>
  /\ fault = NoFault
  /\ fs = <<>>

SpecPrune == InitPrune /\ [][Next]_vars

\* the places in `trees` of the candidates whose unify_tree returns Ok, each
\* candidate unified alone from the grammar's graphs as they were read
Unifying(ord0, ord1) ==
  Only({ {t \in 1..Len(trees) : unify_tree(h0, grammar, trees[t], ord1).r = OK}
         : h0 \in {parse_rules(<<>>, authored, ord0).h} })

\* seq holds the elements of `from` at the places of `at`, by increasing place
RECURSIVE IsSubsequenceAt(_, _, _, _)
IsSubsequenceAt(seq, from, at, n) ==
  IF n > Len(from) THEN seq = <<>>
  ELSE IF n \in at
       THEN seq # <<>> /\ Head(seq) = from[n] /\ IsSubsequenceAt(Tail(seq), from, at, n + 1)
       ELSE IsSubsequenceAt(seq, from, at, n + 1)

\* C27: the Err of a unification is never what parse ends with, and what
\* parse returns are the candidates whose unify_tree succeeds,
\* in the order of Forest::trees: a candidate that fails, at the root or
\* below it, is left out and the candidates around it are kept all the same.
C27_FailuresPruneOneTree ==
  /\ fault # ERR
  /\ pc = "done" =>
       \A ord0, ord1 \in ArcOrders :
          IsSubsequenceAt([i \in 1..Len(results) |-> results[i].tree],
                          [t \in 1..Len(trees) |-> BareOf(grammar, trees[t])],
                          Unifying(ord0, ord1), 1)

\* fish swims: of three candidates the second fails below the root (X asks
\* that N and IV agree), the first and the third are returned
C27_Witness_MiddleCandidateDropped ==
  /\ pc = "done" /\ authored = GPrune /\ input = <<"fish", "swims">>
  /\ Len(trees) = 3 /\ Len(results) = 2
  /\ \A ord0, ord1 \in ArcOrders : Unifying(ord0, ord1) = {1, 3}
  /\ results[1].tree = BareOf(grammar, trees[1])
  /\ results[2].tree = BareOf(grammar, trees[3])

----------------------------------------------------------------------------
(* C28: the tree enumeration returns *)

\* C28: whenever Forest::trees is called it returns its list of trees, also
\* when a completed item can be its own child over the same span.
C28_TreesTerminate == (pc = "trees") ~> (pc = "unify")

----------------------------------------------------------------------------
(* C29: the items of the chart stay within bounds and no assertion fails *)

\* what the assertions of LR0::advance, completer, predictor and scanner say
\* when they fail, and the panic of an index out of range
ChartPanics ==
  {"assertion failed: self.is_active()", "tried to complete active state",
   "tried to predict non-active state", "tried to predict a terminal",
   "tried to scan non-active state", "tried to scan a nonterminal",
   "index out of bounds"}

ItemsInBounds ==
  /\ DOMAIN chart = 0..Len(input)
  /\ k \in DOMAIN chart
  /\ \A l \in DOMAIN chart : \A n \in 1..Len(chart[l]) :
        /\ chart[l][n].origin \in 0..l
        /\ chart[l][n].rule \in DOMAIN grammar.rules
        /\ chart[l][n].pos \in 0..rule_len(grammar.rules[chart[l][n].rule])

\* a turn of the loops of parse_chart at level k leaves every set but C[k]
\* and C[k+1] as it was, and takes nothing out of those two
AddsAtKOrNext ==
  pc = "chart" =>
    \A l \in DOMAIN chart :
       /\ l \in DOMAIN chart'
       /\ Len(chart'[l]) >= Len(chart[l])
       /\ SubSeq(chart'[l], 1, Len(chart[l])) = chart[l]
       /\ l \notin {k, k + 1} => chart'[l] = chart[l]

\* C29: all through parse_chart every item of C[k] has its origin in 0..k,
\* k in 0..N and its dot in 0..the length of its rule, items are added to
\* C[k] or C[k+1] only, k being the level the loop is at, and no assertion of
\* LR0::advance, completer, predictor or scanner fails.
C29_ItemsInBoundsNoAssertion ==
  /\ [](fault \notin ChartPanics)
  /\ [](InParseChart => ItemsInBounds)
  /\ [][AddsAtKOrNext]_vars

\* c under S -> A B, B -> D D, D -> (empty): the chart is built, C[N] holds
\* an item whose origin is N and whose dot is at the end of a rule of two
\* symbols, and a scanned item of origin 0
C29_Witness_AtTheBounds ==
  /\ pc = "forest" /\ authored = GNullable /\ input = <<"c">>
  /\ \E n \in 1..Len(chart[1]) :
        /\ chart[1][n].origin = 1 /\ chart[1][n].pos = 2
        /\ rule_len(grammar.rules[chart[1][n].rule]) = 2
  /\ \E n \in 1..Len(chart[1]) :
        /\ chart[1][n].origin = 0 /\ chart[1][n].pos = 1
        /\ is_terminal(grammar.rules[chart[1][n].rule].productions[1])

====
